---------------------------- MODULE Spec2Model ----------------------------
(***************************************************************************)
(* Timing-synchronisation and audio-remix pipeline of the video dubbing    *)
(* system: speed fitting (TTSService / XTTSService), speaker matching       *)
(* (ASRService.transcribe), voice-sample curation, per-segment synthesis,   *)
(* background preparation, mixing and the orchestration of                 *)
(* DubbingService.create_dubbed_video.                                      *)
(*                                                                         *)
(* Times are integers counted in ticks of 1/TicksPerSecond second.  Speed   *)
(* factors are exact rationals [n, d] with d > 0.  A text is a sequence of  *)
(* one-character strings.                                                   *)
(***************************************************************************)
EXTENDS Integers, Sequences, FiniteSets, TLC

VARIABLES
    config,          \* ProcessingConfig of the service under analysis
    service,         \* which TTS implementation self.tts_service is
    text,            \* argument text of calculate_speed_adjustment
    target_duration, \* argument target_duration, in ticks
    speed_result,    \* outcome of the last calculate_speed_adjustment call
    pc,              \* position of the running call
    files,           \* paths that exist in the file system
    audio_temp_files,\* AudioProcessingService._temp_files
    tts_segments,    \* list of clips {'audio_file', 'start_time', 'end_time'}
    background_audio,\* path of the prepared background track
    mixed_audio,     \* path returned by mix_audio_tracks
    mix_cmd,         \* the transcoding command mix_audio_tracks last built
    raised,          \* exception propagating out of the running call
    whisper_segments,\* segments returned by the speech recogniser
    diarization,     \* result of the diarization pipeline (or None)
    result_segments, \* ASRService.transcribe: result_segments
    speaker_counter, \* ASRService.transcribe: speaker_counter
    asr_i,           \* number of whisper segments the loop has processed
    translated_segments, \* argument of create_dubbed_video
    original_audio,  \* path of the audio extracted from the video
    tts_temp_files,  \* temp_files of self.tts_service
    speaker_samples, \* XTTSService.speaker_samples, with each sample's length
    curation_log,    \* per speaker: what _setup_multi_speaker_cloning did
    cur_i,           \* number of speakers the curation loop has processed
    tts_i,           \* number of segments the synthesis loop has processed
    skipped_count,   \* _generate_tts_segments: skipped_count
    tts_calls,       \* calls of generate_speech made so far
    background_mode, \* how the background track was obtained
    separator_service, \* self.separator_service: None or the service
    sep_temp_files,  \* AudioSeparatorService.temp_files
    sep_saved_files, \* AudioSeparatorService.saved_files
    sep_log,         \* separation passes run: model, input, output
    final_video,     \* path returned by create_final_video
    returned,        \* value returned by create_dubbed_video
    ducking,         \* the volume filter apply_volume_ducking last applied
    sep_passes,      \* the separator.separate calls made: input and output
    progress,        \* reports made to progress_callback, in order
    jobs,            \* concurrent jobs: each one's position and file list
    file_owner,      \* concurrent jobs: the job that last wrote each path
    label_sources,   \* ASRService.transcribe: the branch that set each label
    sep_model,       \* AudioSeparatorService: model loaded, model_name, runs
    output_content,  \* what the file at output_path has held, latest last
    translation,     \* TranslationService.translate_segments: the call
    retry,           \* TranslationService._translate_batch_with_retry
    voice_map        \* TTSService.speaker_voice_mapping and the calls made

speedVars == <<text, target_duration, speed_result>>

mixVars == <<mixed_audio, mix_cmd>>

cloneVars == <<speaker_samples, curation_log, cur_i>>

ttsVars == <<tts_segments, tts_i, skipped_count, tts_calls>>

bgVars == <<background_audio, background_mode, separator_service,
            sep_temp_files, sep_saved_files, sep_log, ducking, sep_passes,
            sep_model>>

endVars == <<original_audio, final_video, returned, output_content>>

asrVars == <<whisper_segments, diarization, result_segments, speaker_counter,
             asr_i, label_sources>>

transVars == <<translation, retry, voice_map>>

jobVars == <<jobs, file_owner, transVars>>

vars == <<config, service, speedVars, pc, files, audio_temp_files, mixVars,
          raised, asrVars, translated_segments, tts_temp_files, cloneVars,
          ttsVars, bgVars, endVars, progress, jobVars>>

---------------------------------------------------------------------------
(* Bounds of the model *)

\* longest text enumerated for calculate_speed_adjustment
MaxTextLen == 3
\* largest |target_duration| enumerated, in ticks
MaxTarget == 4
\* longest clip list enumerated for mix_audio_tracks
MaxClips == 3
\* latest clip start time enumerated, in ticks
MaxStart == 2
\* most diarization turns enumerated
MaxTurns == 3

\* resolution of the time axis: ticks per second
TicksPerSecond == 2

---------------------------------------------------------------------------
(* Exact rationals *)

Rat(n, d) == [n |-> n, d |-> d]

\* a / b for integers a, b with b # 0, normalised to a positive denominator
RatDiv(a, b) == IF b > 0 THEN Rat(a, b) ELSE Rat(-a, -b)

RatLess(a, b) == a.n * b.d < b.n * a.d

RatLeq(a, b) == a.n * b.d <= b.n * a.d

RatEq(a, b) == a.n * b.d = b.n * a.d

One == Rat(1, 1)

\* Python's builtin min(a, b): the first argument unless the second is smaller
PyMin(a, b) == IF RatLess(b, a) THEN b ELSE a

\* Python's builtin max(a, b): the first argument unless the second is larger
PyMax(a, b) == IF RatLess(a, b) THEN b ELSE a

---------------------------------------------------------------------------
(* ProcessingConfig *)

\* min_speaker_sample_duration: float = 6.0
MinSpeakerSampleSeconds == 6

\* min(10.0, ...): the cap on a sample cut from a single segment, in seconds
SingleSampleCapSeconds == 10

\* no model loaded: self.separator is None
NoModel == "<no model>"

\* ProcessingConfig.separation_model and the default of AudioSeparatorService
DefaultSeparationModel == "UVR-MDX-NET-Inst_HQ_4.onnx"

\* the first of the two models of the serial separation
FirstSerialModel == "UVR-MDX-NET-Inst_HQ_3.onnx"

\* dataclass defaults of ProcessingConfig
DefaultConfig ==
    [ enable_speaker_detection |-> TRUE,
      separation_model |-> DefaultSeparationModel,
      background_preservation_mode |-> "ducking",
      save_separated_audio |-> FALSE,
      use_serial_separation |-> FALSE,
      min_speaker_sample_duration |-> MinSpeakerSampleSeconds,
      max_speed_adjustment |-> Rat(3, 2),
      min_speed_adjustment |-> Rat(4, 5) ]

\* speed bounds accepted by ConfigManager.validate_config:
\* 1.0 <= max_speed_adjustment <= 2.0 and 0.5 <= min_speed_adjustment <= 1.0
ValidMaxSpeeds == { Rat(1, 1), Rat(3, 2), Rat(2, 1) }

ValidMinSpeeds == { Rat(1, 2), Rat(4, 5), Rat(1, 1) }

SpeedConfigs ==
    { [DefaultConfig EXCEPT !.max_speed_adjustment = mx,
                            !.min_speed_adjustment = mn] :
        mx \in ValidMaxSpeeds, mn \in ValidMinSpeeds }

---------------------------------------------------------------------------
(* Texts and str.split / str.strip *)

Chars == {" ", "a"}

SeqsUpTo(S, n) == UNION { [1..k -> S] : k \in 0..n }

Texts == SeqsUpTo(Chars, MaxTextLen)

\* len(text.split()): the number of maximal runs of non-whitespace characters
WordCount(t) ==
    Cardinality({ i \in 1..Len(t) :
                    t[i] # " " /\ (i = 1 \/ t[i - 1] = " ") })

\* text.strip() is the empty string
IsBlank(t) == \A i \in 1..Len(t) : t[i] = " "

\* text.strip(): leading and trailing whitespace removed
Strip(t) ==
    IF IsBlank(t) THEN <<>>
    ELSE LET nonblank == { i \in 1..Len(t) : t[i] # " " }
             lo == CHOOSE i \in nonblank : \A j \in nonblank : i <= j
             hi == CHOOSE i \in nonblank : \A j \in nonblank : i >= j
         IN  SubSeq(t, lo, hi)

---------------------------------------------------------------------------
(* calculate_speed_adjustment *)

Returned(v) == [raised |-> "none", value |-> v]

Raised(e) == [raised |-> e, value |-> One]

\* no call has been made yet
Pending == [raised |-> "pending", value |-> One]

\* (words / 150.0) * 60.0 seconds, as a rational number of seconds
EstimatedDuration(t) == Rat(WordCount(t) * 60, 150)

\* estimated_duration / target_duration, target_duration in ticks and # 0
RawSpeedFactor(t, target) ==
    RatDiv(EstimatedDuration(t).n * TicksPerSecond,
           EstimatedDuration(t).d * target)

\* max(config.min_speed_adjustment, min(config.max_speed_adjustment, x))
ClampSpeed(cfg, x) ==
    PyMax(cfg.min_speed_adjustment, PyMin(cfg.max_speed_adjustment, x))

TTSService_calculate_speed_adjustment(cfg, t, target) ==
    IF target <= 0 THEN Returned(One)
    ELSE IF EstimatedDuration(t).n <= 0 THEN Returned(One)
    ELSE Returned(ClampSpeed(cfg, RawSpeedFactor(t, target)))

XTTSService_calculate_speed_adjustment(cfg, t, target) ==
    IF EstimatedDuration(t).n = 0 THEN Returned(One)
    ELSE IF target = 0 THEN Raised("ZeroDivisionError")
    ELSE Returned(ClampSpeed(cfg, RawSpeedFactor(t, target)))

calculate_speed_adjustment(svc, cfg, t, target) ==
    IF svc = "XTTSService"
    THEN XTTSService_calculate_speed_adjustment(cfg, t, target)
    ELSE TTSService_calculate_speed_adjustment(cfg, t, target)

---------------------------------------------------------------------------
(* Paths, exceptions and the transcoding utility *)

NoPath == "<none>"

NoException == [type |-> "none", stage |-> "none"]

Exception(type, stage) == [type |-> type, stage |-> stage]

\* progress_callback(message, fraction), made at the step named stage
Report(stage, message, fraction) ==
    [stage |-> stage, message |-> message, fraction |-> fraction]

\* the share of the loop without the 0.2 the loop starts at
LoopProgress_noBase(i, total) == Rat(2 * i, 5 * total)

\* progress = 0.2 + (0.4 * (i / total))
LoopProgress(i, total) == Rat(total + 2 * i, 5 * total)

\* exit statuses of a subprocess: 0 or non-zero
ExitStatuses == {"ok", "failed"}

\* os.path.join(self.temp_dir, "mixed_audio.wav")
MixedAudioPath == "temp_dir/mixed_audio.wav"

\* path of the k-th synthesized clip (a fresh NamedTemporaryFile per clip)
ClipPath(k) == "tts_" \o ToString(k) \o ".wav"

\* os.path.join(self.temp_dir, "ducked_audio.wav")
DuckedAudioPath == "temp_dir/ducked_audio.wav"

\* the video given to create_dubbed_video and the path asked for the result
VideoPath == "video.mp4"

OutputPath == "dubbed.mp4"

\* temp_dir / f"{Path(video_path).stem}_audio.wav"
ExtractedAudioPath == "temp_dir/video_audio.wav"

\* temp_dir / f"{Path(video_path).stem}_dubbed.mp4"
FinalVideoPath == "temp_dir/video_dubbed.mp4"

\* the speaker ids of the translated segments; "speaker_0" is the default slot
SpeakerIds == {"speaker_0", "speaker_1"}

\* no entry for the speaker in speaker_samples
NoSample == [path |-> NoPath, duration |-> 0]

---------------------------------------------------------------------------
(* AudioProcessingService.mix_audio_tracks *)

NoCmd == [inputs |-> <<>>, filter_parts |-> <<>>, mix_inputs |-> <<>>,
          num_inputs |-> 0]

\* int(start_time * 1000), start_time in ticks
DelayMs(start_time) == (start_time * 1000) \div TicksPerSecond

\* os.path.exists(seg_info['audio_file'].path)
ClipExists(fs, clip) == clip.audio_file \in fs

\* mutant: the empty-list shortcut is missing
MixShortCircuits_never(clips) == FALSE

\* "if not tts_segments: return original"
MixShortCircuits(clips) == clips = <<>>

\* the ffmpeg input that the adelay entry of the clip at 0-based position i
\* reads: f"[{i+1}:a]"
AdelayInputIndex(i) == i + 1

\* filter_parts after the loop over tts_segments: the leading "[0:a]" and one
\* "[{i+1}:a]adelay={delay_ms}|{delay_ms}[a{i}];" per clip whose file exists
\* (i is the 0-based position of the clip in tts_segments)
FilterParts(fs, clips) ==
    LET entry(k) == [kind |-> "adelay",
                     input |-> AdelayInputIndex(k - 1),
                     delay_ms |-> DelayMs(clips[k].start_time),
                     label |-> k - 1,
                     exists |-> ClipExists(fs, clips[k])]
        all == [k \in 1..Len(clips) |-> entry(k)]
    IN  <<[kind |-> "label", input |-> 0, delay_ms |-> 0, label |-> -1,
           exists |-> TRUE]>>
        \o SelectSeq(all, LAMBDA e : e.exists)

\* the "-i" arguments of the command: the original, then every clip whose file
\* exists, in list order
CmdInputs(fs, original, clips) ==
    LET paths == [k \in 1..Len(clips) |-> clips[k]]
    IN  <<original>> \o
        [k \in 1..Len(SelectSeq(paths, LAMBDA c : ClipExists(fs, c))) |->
            SelectSeq(paths, LAMBDA c : ClipExists(fs, c))[k].audio_file]

\* mix_inputs: "[0:a]" followed by "[a{i}]" for every i whose label occurs in
\* the joined filter_parts
MixInputLabels(fs, clips) ==
    LET parts == FilterParts(fs, clips)
        labels == [k \in 1..Len(clips) |-> k - 1]
    IN  <<-1>> \o
        SelectSeq(labels,
                  LAMBDA l : \E j \in 1..Len(parts) :
                                 parts[j].kind = "adelay" /\ parts[j].label = l)

\* 1 + len([s for s in tts_segments if os.path.exists(s['audio_file'].path)])
NumInputs(fs, clips) ==
    1 + Cardinality({ k \in 1..Len(clips) : ClipExists(fs, clips[k]) })

MixCommand(fs, original, clips) ==
    IF Len(FilterParts(fs, clips)) > 1
    THEN [inputs |-> CmdInputs(fs, original, clips),
          filter_parts |-> FilterParts(fs, clips),
          mix_inputs |-> MixInputLabels(fs, clips),
          num_inputs |-> NumInputs(fs, clips)]
    ELSE \* no clip file exists: the original is copied to the output path
         [inputs |-> <<original>>, filter_parts |-> <<>>,
          mix_inputs |-> <<>>, num_inputs |-> 1]

\* mix_audio_tracks(original, tts_segments) with the transcoding utility
\* ending with exit status rc
mix_audio_tracks(rc) ==
    IF background_audio \notin files
    THEN /\ raised' = Exception("FileNotFoundError", "mix_audio_tracks")
         /\ pc' = "except"
         /\ UNCHANGED <<files, audio_temp_files, mixed_audio, mix_cmd>>
    ELSE IF MixShortCircuits(tts_segments)
    THEN /\ mixed_audio' = background_audio
         /\ pc' = "create_final_video"
         /\ UNCHANGED <<files, audio_temp_files, mix_cmd, raised>>
    ELSE /\ audio_temp_files' = Append(audio_temp_files, MixedAudioPath)
         /\ mix_cmd' = MixCommand(files, background_audio, tts_segments)
         /\ IF rc = "ok"
            THEN /\ files' = files \cup {MixedAudioPath}
                 /\ mixed_audio' = MixedAudioPath
                 /\ pc' = "create_final_video"
                 /\ UNCHANGED raised
            ELSE /\ raised' = Exception("RuntimeError", "mix_audio_tracks")
                 /\ pc' = "except"
                 /\ UNCHANGED <<files, mixed_audio>>

MixAudioTracks ==
    /\ pc = "mix_audio_tracks"
    /\ \E rc \in ExitStatuses : mix_audio_tracks(rc)
    /\ progress' = Append(progress,
                         Report("mix_audio_tracks", "Mixing audio tracks...",
                                Rat(7, 10)))
    /\ UNCHANGED <<config, service, jobVars, speedVars, asrVars, translated_segments,
                   tts_temp_files, cloneVars, ttsVars, bgVars, endVars>>

---------------------------------------------------------------------------
(* ASRService.transcribe: conversion of the recogniser's segments and      *)
(* assignment of a speaker to each                                         *)

NoSpeaker == "<None>"

\* diarization = None: speaker detection disabled, or the pipeline failed
NoDiarization == [available |-> FALSE, turns |-> <<>>]

IdleAsr ==
    /\ whisper_segments = <<>>
    /\ diarization = NoDiarization
    /\ result_segments = <<>>
    /\ label_sources = <<>>
    /\ speaker_counter = 0
    /\ asr_i = 0

Min2(a, b) == IF a <= b THEN a ELSE b

Max2(a, b) == IF a >= b THEN a ELSE b

\* diarization.crop(Segment(seg.start, seg.end)): every turn trimmed to its
\* intersection with the segment, empty intersections dropped; a turn keeps
\* its position in the annotation as track
CroppedTurn(turns, k, seg) ==
    [start |-> Max2(turns[k].start, seg.start),
     end |-> Min2(turns[k].end, seg.end),
     label |-> turns[k].label,
     track |-> k]

CroppedSet(turns, seg) ==
    { CroppedTurn(turns, k, seg) : k \in
        { j \in 1..Len(turns) :
            Min2(turns[j].end, seg.end) > Max2(turns[j].start, seg.start) } }

\* order of itertracks: by (start, end) of the segment, then by track
TrackBefore(a, b) ==
    \/ a.start < b.start
    \/ a.start = b.start /\ a.end < b.end
    \/ a.start = b.start /\ a.end = b.end /\ a.track <= b.track

RECURSIVE IterTracks(_)
IterTracks(S) ==
    IF S = {} THEN <<>>
    ELSE LET first == CHOOSE a \in S : \A b \in S : TrackBefore(a, b)
         IN  <<first>> \o IterTracks(S \ {first})

\* the overlap of one turn with the segment, as the loop computes it
TurnOverlap(turn, seg) ==
    Max2(0, Min2(turn.end, seg.end) - Max2(turn.start, seg.start))

\* speaker_durations[speaker] = speaker_durations.get(speaker, 0) + duration:
\* a dict is a sequence of items in insertion order
DictAdd(d, key, amount) ==
    IF \E j \in 1..Len(d) : d[j].key = key
    THEN [j \in 1..Len(d) |->
            IF d[j].key = key THEN [d[j] EXCEPT !.value = @ + amount]
            ELSE d[j]]
    ELSE Append(d, [key |-> key, value |-> amount])

RECURSIVE SpeakerDurations(_, _, _)
SpeakerDurations(tracks, seg, d) ==
    IF tracks = <<>> THEN d
    ELSE LET duration == TurnOverlap(Head(tracks), seg)
         IN  SpeakerDurations(Tail(tracks), seg,
                 IF duration > 0 THEN DictAdd(d, Head(tracks).label, duration)
                 ELSE d)

\* mutant: the first label inserted instead of the one with the largest value
MaxDurationKey_first(d) == d[1].key

\* max(speaker_durations.items(), key=lambda x: x[1])[0]: the first item, in
\* insertion order, whose value is the largest
MaxDurationKey(d) ==
    LET best == CHOOSE j \in 1..Len(d) :
                  /\ \A k \in 1..Len(d) : d[k].value <= d[j].value
                  /\ \A k \in 1..(j - 1) : d[k].value < d[j].value
    IN  d[best].key

\* the speaker matched from the diarization, or None
MatchSpeaker(dia, seg) ==
    IF ~dia.available \/ dia.turns = <<>> THEN NoSpeaker
    ELSE LET speakers == IterTracks(CroppedSet(dia.turns, seg))
             speaker_durations == SpeakerDurations(speakers, seg, <<>>)
         IN  IF speakers = <<>> \/ speaker_durations = <<>> THEN NoSpeaker
             ELSE MaxDurationKey(speaker_durations)

\* f"speaker_{speaker_counter % 4 + 1}"
HeuristicSpeaker(counter) == "speaker_" \o ToString((counter % 4) + 1)

\* (segment.start - result_segments[-1].end_time) > 2.0
StartsNewSpeaker(results, seg) ==
    \/ Len(results) = 0
    \/ seg.start - results[Len(results)].end_time > 2 * TicksPerSecond

\* one iteration of "for segment in whisper_segments"
TranscribeSegment ==
    /\ pc = "transcribe"
    /\ asr_i < Len(whisper_segments)
    /\ LET segment == whisper_segments[asr_i + 1]
           matched == MatchSpeaker(diarization, segment)
           fallback == /\ matched = NoSpeaker
                       /\ config.enable_speaker_detection
                       /\ ~diarization.available
           counter == IF fallback /\ StartsNewSpeaker(result_segments, segment)
                      THEN speaker_counter + 1 ELSE speaker_counter
           speaker_id == IF fallback THEN HeuristicSpeaker(counter)
                         ELSE matched
           result_segment == [start_time |-> segment.start,
                              end_time |-> segment.end,
                              text |-> Strip(segment.text),
                              speaker_id |-> speaker_id]
       IN  /\ speaker_counter' = counter
           /\ result_segments' =
                 IF result_segment.start_time < result_segment.end_time
                 THEN Append(result_segments, result_segment)
                 ELSE result_segments
           /\ label_sources' =
                 IF result_segment.start_time < result_segment.end_time
                 THEN Append(label_sources,
                             IF fallback THEN "heuristic"
                             ELSE IF matched # NoSpeaker THEN "diarization"
                             ELSE "none")
                 ELSE label_sources
           /\ asr_i' = asr_i + 1
    /\ UNCHANGED <<config, service, jobVars, progress, speedVars, pc, files, audio_temp_files,
                   mixVars, raised, diarization, whisper_segments,
                   translated_segments, tts_temp_files, cloneVars, ttsVars,
                   bgVars, endVars>>

---------------------------------------------------------------------------
(* DubbingService._setup_multi_speaker_cloning and                         *)
(* DubbingService._combine_speaker_segments                                *)

\* self.use_voice_cloning and isinstance(self.tts_service, XTTSService)
UseVoiceCloning_never == FALSE

UseVoiceCloning == service = "XTTSService"

\* segment.speaker_id or "speaker_0"
SpeakerOf(seg) ==
    IF seg.speaker_id = NoSpeaker THEN "speaker_0" ELSE seg.speaker_id

SegDuration(seg) == seg.end_time - seg.start_time

\* the keys of speaker_segments_map in insertion order: the speakers in the
\* order of their first segment
RECURSIVE SpeakerOrder(_)
SpeakerOrder(segs) ==
    IF segs = <<>> THEN <<>>
    ELSE LET rest == SpeakerOrder(SubSeq(segs, 1, Len(segs) - 1))
             sp == SpeakerOf(segs[Len(segs)])
         IN  IF \E j \in 1..Len(rest) : rest[j] = sp THEN rest
             ELSE Append(rest, sp)

\* speaker_segments_map[speaker_id]
SegmentsOf(segs, sp) == SelectSeq(segs, LAMBDA g : SpeakerOf(g) = sp)

\* sorted(segments, key=lambda s: s.start_time): a stable sort
RECURSIVE SortByStart(_)
SortByStart(segs) ==
    IF segs = <<>> THEN <<>>
    ELSE LET m == CHOOSE i \in 1..Len(segs) :
                    /\ \A j \in 1..Len(segs) :
                          segs[i].start_time <= segs[j].start_time
                    /\ \A j \in 1..(i - 1) :
                          segs[j].start_time > segs[i].start_time
         IN  <<segs[m]>> \o
             SortByStart(SubSeq(segs, 1, m - 1) \o SubSeq(segs, m + 1, Len(segs)))

\* self.config.min_speaker_sample_duration, in ticks
MinSampleDuration(cfg) == cfg.min_speaker_sample_duration * TicksPerSecond

\* the first segment whose duration reaches the minimum: its position, or 0
SuitableSegment(segs, min_duration) ==
    IF \E i \in 1..Len(segs) : SegDuration(segs[i]) >= min_duration
    THEN CHOOSE i \in 1..Len(segs) :
            /\ SegDuration(segs[i]) >= min_duration
            /\ \A j \in 1..(i - 1) : SegDuration(segs[j]) < min_duration
    ELSE 0

\* sample_duration = min(10.0, suitable_segment.end_time - start_time)
SingleSampleDuration(seg) ==
    Min2(SingleSampleCapSeconds * TicksPerSecond, SegDuration(seg))

\* a slice as long as its segment, whatever is still needed
SliceDuration_whole(seg, target, accumulated) == SegDuration(seg)

\* seg_duration = min(seg.end_time - seg.start_time,
\*                    target_duration - accumulated_duration)
SliceDuration(seg, target, accumulated) ==
    Min2(SegDuration(seg), target - accumulated)

\* the extraction loop of _combine_speaker_segments over the sorted segments,
\* rcs[k] being the exit status of the k-th extraction:
\* st.acc is accumulated_duration, st.taken the slices in segment_files,
\* st.tried the positions for which a temporary file was made
RECURSIVE CombineLoop(_, _, _, _, _)
CombineLoop(sorted, rcs, k, target, st) ==
    IF k > Len(sorted) \/ st.acc >= target THEN st
    ELSE LET seg_duration == SliceDuration(sorted[k], target, st.acc)
         IN  CombineLoop(sorted, rcs, k + 1, target,
                 IF rcs[k] = "ok"
                 THEN [acc |-> st.acc + seg_duration,
                       taken |-> Append(st.taken,
                                        [pos |-> k,
                                         start |-> sorted[k].start_time,
                                         duration |-> seg_duration]),
                       tried |-> st.tried \cup {k}]
                 ELSE [st EXCEPT !.tried = @ \cup {k}])

\* temporary files of the curation of one speaker
SamplePath(sp) == "sample_" \o sp \o ".wav"

SlicePath(sp, k) == "slice_" \o sp \o "_" \o ToString(k) \o ".wav"

CombinedPath(sp) == "combined_" \o sp \o ".wav"

\* the outcome of curating one speaker: what is logged, the sample registered,
\* the files left in the file system and the paths added to temp_files
Curation(outcome, sample, slices, left, tracked) ==
    [outcome |-> outcome, sample |-> sample, slices |-> slices,
     left |-> left, tracked |-> tracked]

\* _combine_speaker_segments(original_audio, segments, target_duration) for
\* speaker sp, then set_speaker_sample; rcs are the exit statuses of the
\* extractions and rc that of the concatenation
CombineSpeakerSegments(sp, segs, target, rcs, rc) ==
    LET sorted == SortByStart(segs)
        st == CombineLoop(sorted, rcs, 1, target,
                          [acc |-> 0, taken |-> <<>>, tried |-> {}])
        failed == { SlicePath(sp, k) : k \in
                      st.tried \ { st.taken[j].pos : j \in 1..Len(st.taken) } }
    IN  IF st.taken = <<>>
        THEN Curation("RuntimeError: No valid segments found to combine",
                      NoSample, <<>>, failed, <<>>)
        ELSE IF Len(st.taken) > 1 /\ rc # "ok"
        THEN Curation("RuntimeError: Failed to concatenate segments",
                      NoSample, st.taken, failed \cup {CombinedPath(sp)}, <<>>)
        ELSE Curation("combined",
                      [path |-> CombinedPath(sp), duration |-> st.acc],
                      st.taken, failed \cup {CombinedPath(sp)},
                      <<CombinedPath(sp)>>)

\* extract_speaker_sample(original_audio, start_time, sample_duration), then
\* set_speaker_sample
ExtractSpeakerSample(sp, seg, rc) ==
    IF rc = "ok"
    THEN Curation("single",
                  [path |-> SamplePath(sp),
                   duration |-> SingleSampleDuration(seg)],
                  <<[pos |-> 0, start |-> seg.start_time,
                     duration |-> SingleSampleDuration(seg)]>>,
                  {SamplePath(sp)}, <<SamplePath(sp)>>)
    ELSE Curation("RuntimeError: Failed to extract speaker sample",
                  NoSample, <<>>, {SamplePath(sp)}, <<SamplePath(sp)>>)

\* the body of "for speaker_id, speaker_segs in speaker_segments_map.items()"
CurateOne(cfg, sp, segs, rcs, rc) ==
    LET min_duration == MinSampleDuration(cfg)
        suitable == SuitableSegment(segs, min_duration)
    IN  IF suitable # 0
        THEN ExtractSpeakerSample(sp, segs[suitable], rc)
        ELSE CombineSpeakerSegments(sp, segs, min_duration, rcs, rc)

NoCuration == [outcome |-> "none", slices |-> <<>>]

\* one iteration of the loop over the speakers (every exception is caught
\* and logged, and the loop goes on)
CurateSpeaker ==
    /\ pc = "setup_voice_cloning"
    /\ UseVoiceCloning
    /\ cur_i < Len(SpeakerOrder(translated_segments))
    /\ LET sp == SpeakerOrder(translated_segments)[cur_i + 1]
           segs == SegmentsOf(translated_segments, sp)
       IN  \E rcs \in [1..Len(segs) -> ExitStatuses], rc \in ExitStatuses :
             LET c == CurateOne(config, sp, segs, rcs, rc)
             IN  /\ files' = files \cup c.left
                 /\ tts_temp_files' = tts_temp_files \o c.tracked
                 /\ speaker_samples' =
                       IF c.sample # NoSample
                       THEN [speaker_samples EXCEPT ![sp] = c.sample]
                       ELSE speaker_samples
                 /\ curation_log' =
                       [curation_log EXCEPT
                          ![sp] = [outcome |-> c.outcome, slices |-> c.slices]]
    /\ cur_i' = cur_i + 1
    /\ progress' =
         IF cur_i = 0
         THEN Append(progress,
                     Report("setup_voice_cloning",
                            "Extracting speaker voice samples...", Rat(3, 20)))
         ELSE progress
    /\ UNCHANGED <<config, service, jobVars, speedVars, pc, audio_temp_files, mixVars,
                   raised, asrVars, translated_segments, ttsVars, bgVars,
                   endVars>>

---------------------------------------------------------------------------
(* DubbingService._generate_tts_segments and generate_speech               *)

\* voices[0] of _select_voice, used when no voice is cloned
SelectedVoice == "en-US-AriaNeural"

\* not segment.text or not segment.text.strip()
SkipsText_emptyOnly(t) == t = <<>>

SkipsText(t) == IsBlank(t)

\* what the model loader and the synthesizer of a call can do
SpeechOutcomes == {"ok", "load_failed", "synthesis_failed"}

\* the voice of a segment: the speaker's own sample, else speaker_0's,
\* else none (the segment is skipped); the selected voice without cloning
SegmentVoice_ownSpeakerOnly(seg) ==
    IF ~UseVoiceCloning THEN SelectedVoice ELSE SpeakerOf(seg)

SegmentVoice(seg) ==
    IF ~UseVoiceCloning THEN SelectedVoice
    ELSE IF speaker_samples[SpeakerOf(seg)] # NoSample THEN SpeakerOf(seg)
    ELSE IF speaker_samples["speaker_0"] # NoSample THEN "speaker_0"
    ELSE NoSpeaker

\* generate_speech(segment, voice, speed_factor) of the k-th segment:
\* the exception raised or "none", the clip file left, and the path kept
\* in temp_files
generate_speech(svc, seg, k, voice, out) ==
    IF IsBlank(seg.text)
    THEN [raised |-> "ValueError", created |-> {}, tracked |-> <<>>]
    ELSE IF svc = "XTTSService" /\ out = "load_failed"
    THEN [raised |-> "RuntimeError", created |-> {}, tracked |-> <<>>]
    ELSE IF svc = "XTTSService" /\ voice \notin SpeakerIds
    THEN [raised |-> "ValueError", created |-> {}, tracked |-> <<>>]
    ELSE IF svc = "XTTSService" /\ speaker_samples[voice] = NoSample
    THEN [raised |-> "ValueError", created |-> {}, tracked |-> <<>>]
    ELSE IF out = "ok"
    THEN [raised |-> "none", created |-> {ClipPath(k)},
          tracked |-> <<ClipPath(k)>>]
    ELSE [raised |-> "RuntimeError", created |-> {},
          tracked |-> IF svc = "XTTSService" THEN <<ClipPath(k)>> ELSE <<>>]

\* the segment is skipped: skipped_count += 1; continue
SkipSegment ==
    /\ skipped_count' = skipped_count + 1
    /\ tts_i' = tts_i + 1
    /\ UNCHANGED <<tts_segments, pc, raised>>

\* a clip that ends where its synthesized audio, one tick long, ends
ClipOf_audioLength(seg, k) ==
    [audio_file |-> ClipPath(k),
     start_time |-> seg.start_time,
     end_time |-> seg.start_time + 1]

\* {'audio_file': audio_file, 'start_time': segment.start_time,
\*  'end_time': segment.end_time} for the k-th segment
ClipOf(seg, k) ==
    [audio_file |-> ClipPath(k),
     start_time |-> seg.start_time,
     end_time |-> seg.end_time]

\* one iteration of "for i, segment in enumerate(segments)"
GenerateTtsSegment ==
    /\ pc = "generate_tts"
    /\ tts_i < Len(translated_segments)
    /\ LET k == tts_i + 1
           seg == translated_segments[k]
           speed == calculate_speed_adjustment(service, config, seg.text,
                                               SegDuration(seg))
           voice == SegmentVoice(seg)
       IN  IF SkipsText(seg.text)
           THEN /\ SkipSegment
                /\ UNCHANGED <<files, tts_temp_files, tts_calls>>
           ELSE IF speed.raised # "none"
           THEN /\ raised' = Exception(speed.raised, "generate_tts")
                /\ pc' = "except"
                /\ UNCHANGED <<files, tts_temp_files, tts_segments, tts_i,
                               skipped_count, tts_calls>>
           ELSE IF voice = NoSpeaker
           THEN /\ SkipSegment
                /\ UNCHANGED <<files, tts_temp_files, tts_calls>>
           ELSE \E out \in SpeechOutcomes :
                  LET r == generate_speech(service, seg, k, voice, out)
                  IN  /\ tts_calls' =
                            Append(tts_calls,
                                   [segment |-> k, voice |-> voice,
                                    speed_factor |-> speed.value])
                      /\ files' = files \cup r.created
                      /\ tts_temp_files' = tts_temp_files \o r.tracked
                      /\ IF r.raised = "none"
                         THEN /\ tts_segments' =
                                    Append(tts_segments, ClipOf(seg, k))
                              /\ tts_i' = tts_i + 1
                              /\ UNCHANGED <<skipped_count, pc, raised>>
                         ELSE SkipSegment
    /\ progress' =
         Append(progress,
                Report("generate_tts",
                       "Generating speech " \o ToString(tts_i + 1) \o "/"
                          \o ToString(Len(translated_segments)) \o "...",
                       LoopProgress(tts_i, Len(translated_segments))))
    /\ UNCHANGED <<config, service, jobVars, speedVars, audio_temp_files, mixVars,
                   asrVars, translated_segments, cloneVars, bgVars, endVars>>

\* after the loop: if not tts_segments: raise RuntimeError("No valid TTS
\* segments were generated. ..."); return tts_segments
NoValidTtsSegments == Exception("RuntimeError: No valid TTS segments",
                                "generate_tts")

ReturnTtsSegments ==
    /\ pc = "generate_tts"
    /\ tts_i = Len(translated_segments)
    /\ IF tts_segments = <<>>
       THEN /\ raised' = NoValidTtsSegments
            /\ pc' = "except"
       ELSE /\ pc' = "prepare_background"
            /\ UNCHANGED raised
    /\ UNCHANGED <<config, service, jobVars, progress, speedVars, files, audio_temp_files,
                   mixVars, asrVars, translated_segments, tts_temp_files,
                   cloneVars, ttsVars, bgVars, endVars>>

---------------------------------------------------------------------------
(* DubbingService._prepare_background_audio, AudioSeparatorService and     *)
(* AudioProcessingService.apply_volume_ducking                             *)

\* output_files of the k-th separator.separate call
OutputFiles(k) ==
    << "separated_" \o ToString(k) \o "_0.wav",
       "separated_" \o ToString(k) \o "_1.wav" >>

\* vocals_path = output_files[1]; background_path = output_files[0]
VocalsOf(output_files) == output_files[2]

BackgroundOf(output_files) == output_files[1]

\* what a separation call can do
SeparationOutcomes == {"ok", "raises"}

\* the separator's view of the file system and of its two lists
SepState(fs, temp, saved, passes) ==
    [files |-> fs, temp |-> temp, saved |-> saved, passes |-> passes]

\* one separator.separate call: its input, how it ended and the file the
\* service takes as the background
Pass(input, outcome, background) ==
    [input |-> input, outcome |-> outcome, background |-> background]

\* separate_audio(audio_path) as the k-th call
separate_audio(st, audio_path, k, out, save_files) ==
    IF audio_path \notin st.files
    THEN [raised |-> "FileNotFoundError", st |-> st,
          vocals |-> NoPath, background |-> NoPath]
    ELSE IF out # "ok"
    THEN [raised |-> "RuntimeError",
          st |-> [st EXCEPT
                    !.passes = Append(@, Pass(audio_path, out, NoPath))],
          vocals |-> NoPath, background |-> NoPath]
    ELSE [raised |-> "none",
          st |-> SepState(st.files \cup {OutputFiles(k)[1], OutputFiles(k)[2]},
                          IF save_files THEN st.temp
                          ELSE st.temp \o <<VocalsOf(OutputFiles(k)),
                                            BackgroundOf(OutputFiles(k))>>,
                          IF save_files
                          THEN st.saved \o <<VocalsOf(OutputFiles(k)),
                                             BackgroundOf(OutputFiles(k))>>
                          ELSE st.saved,
                          Append(st.passes,
                                 Pass(audio_path, out,
                                      BackgroundOf(OutputFiles(k))))),
          vocals |-> VocalsOf(OutputFiles(k)),
          background |-> BackgroundOf(OutputFiles(k))]

\* remove_vocals(audio_path): separate, then drop the vocals file unless the
\* files are saved
remove_vocals(st, audio_path, out, save_files) ==
    LET r == separate_audio(st, audio_path, 1, out, save_files)
    IN  IF r.raised # "none" \/ save_files THEN r
        ELSE [r EXCEPT
                !.st = SepState(r.st.files \ {r.vocals},
                                SelectSeq(r.st.temp,
                                          LAMBDA f : f # r.vocals),
                                r.st.saved, r.st.passes)]

\* a serial separation whose passes all work on the original audio
separate_audio_serial_unchained(st, audio_path, outs, save_files) ==
    LET r1 == separate_audio(st, audio_path, 1, outs[1], save_files)
    IN  IF r1.raised # "none" THEN r1
        ELSE separate_audio(r1.st, audio_path, 2, outs[2], save_files)

\* separate_audio_serial(audio_path, models) with two models: the second
\* call works on the background of the first
separate_audio_serial(st, audio_path, outs, save_files) ==
    LET r1 == separate_audio(st, audio_path, 1, outs[1], save_files)
    IN  IF r1.raised # "none" THEN r1
        ELSE separate_audio(r1.st, r1.background, 2, outs[2], save_files)

\* "except ImportError" around the construction of the separator
ConstructorHandlerCatches(err) == err = "ImportError"

\* "except Exception" around the separation calls
SeparationHandlerCatches_importOnly(err) == err = "ImportError"

SeparationHandlerCatches(err) == TRUE

\* no AudioSeparatorService exists
NoSeparator == [loaded |-> NoModel, model_name |-> NoModel, runs |-> <<>>]

\* AudioSeparatorService(model_name=...): self.separator = None
NewSeparator(model_name) ==
    [loaded |-> NoModel, model_name |-> model_name, runs |-> <<>>]

\* model_to_load = model_name or self.model_name
ModelToLoad(m, requested) ==
    IF requested = NoModel THEN m.model_name ELSE requested

\* _initialize_separator(model_name)
initialize_separator(m, requested) ==
    IF m.loaded = NoModel
    THEN [m EXCEPT !.loaded = ModelToLoad(m, requested)]
    ELSE IF ModelToLoad(m, requested) # m.model_name
    THEN [m EXCEPT !.loaded = ModelToLoad(m, requested),
                   !.model_name = ModelToLoad(m, requested)]
    ELSE m

\* separate_audio(audio_path, model_name=requested) up to the call of
\* self.separator.separate: the run is made with the model then loaded
RunSeparator(m, requested) ==
    LET n == initialize_separator(m, requested)
    IN  [n EXCEPT !.runs = Append(@, [wanted |-> ModelToLoad(m, requested),
                                      loaded |-> n.loaded,
                                      model_name |-> n.model_name])]

RECURSIVE RunSeparators(_, _)
RunSeparators(m, requests) ==
    IF requests = <<>> THEN m
    ELSE RunSeparators(RunSeparator(m, Head(requests)), Tail(requests))

\* the models _prepare_background_audio asks for, in order
RequestedModels(cfg) ==
    IF cfg.use_serial_separation
    THEN <<FirstSerialModel, cfg.separation_model>>
    ELSE <<cfg.separation_model>>

NoDucking == [applied |-> FALSE, level |-> One, windows |-> <<>>]

\* ducking_level_db = -20.0, the level _prepare_background_audio passes
DuckingLevelDb == Rat(-20, 1)

\* ducking_level = max(0.0, min(1.0, ducking_level))
ClampDuckingLevel(level) == PyMax(Rat(0, 1), PyMin(One, level))

\* speech_timings: the start and end of every clip
SpeechTimings(clips) ==
    [k \in 1..Len(clips) |-> [start_time |-> clips[k].start_time,
                              end_time |-> clips[k].end_time]]

\* volume=volume='if(gt(between(t,s1,e1)+between(t,s2,e2)+...,0),level,1.0)'
VolumeFilter(level, clips) ==
    [applied |-> TRUE, level |-> ClampDuckingLevel(level),
     windows |-> SpeechTimings(clips)]

\* the gain the filter gives to the sample at time t
GainAt(filter, t) ==
    IF \E k \in 1..Len(filter.windows) :
          filter.windows[k].start_time <= t /\ t <= filter.windows[k].end_time
    THEN filter.level
    ELSE One

\* apply_volume_ducking(original_audio, speech_timings, -20.0) on the file
\* system fs, rc being the exit status of the transcoding
apply_volume_ducking(fs, rc) ==
    IF original_audio \notin fs
    THEN /\ raised' = Exception("FileNotFoundError", "apply_volume_ducking")
         /\ pc' = "except"
         /\ files' = fs
         /\ UNCHANGED <<background_audio, background_mode, audio_temp_files,
                        ducking>>
    ELSE IF tts_segments = <<>>
    THEN /\ background_audio' = original_audio
         /\ background_mode' = "ducked"
         /\ pc' = "mix_audio_tracks"
         /\ files' = fs
         /\ UNCHANGED <<raised, audio_temp_files, ducking>>
    ELSE /\ audio_temp_files' = Append(audio_temp_files, DuckedAudioPath)
         /\ IF rc = "ok"
            THEN /\ background_audio' = DuckedAudioPath
                 /\ ducking' = VolumeFilter(DuckingLevelDb, tts_segments)
                 /\ background_mode' = "ducked"
                 /\ pc' = "mix_audio_tracks"
                 /\ files' = fs \cup {DuckedAudioPath}
                 /\ UNCHANGED raised
            ELSE /\ raised' = Exception("RuntimeError", "apply_volume_ducking")
                 /\ pc' = "except"
                 /\ files' = fs
                 /\ UNCHANGED <<background_audio, background_mode, ducking>>

\* the whole of _prepare_background_audio: importable tells whether the
\* separator package is installed, outs are the outcomes of the separation
\* calls and rc the exit status of the ducking
PrepareBackgroundAudio ==
    /\ pc = "prepare_background"
    /\ \E importable \in BOOLEAN, outs \in [1..2 -> SeparationOutcomes],
          rc \in ExitStatuses :
         LET wanted == config.background_preservation_mode = "separator"
             constructed ==
                 wanted /\ (separator_service # "None" \/ importable)
             st == SepState(files, sep_temp_files, sep_saved_files,
                            sep_passes)
             r == IF config.use_serial_separation
                  THEN separate_audio_serial(st, original_audio, outs,
                                             config.save_separated_audio)
                  ELSE remove_vocals(st, original_audio, outs[1],
                                     config.save_separated_audio)
             \* the separator after the calls that got past the check of
             \* the input file
             ran == RunSeparators(
                       IF separator_service = "None"
                       THEN NewSeparator(config.separation_model)
                       ELSE sep_model,
                       SubSeq(RequestedModels(config), 1,
                              Len(r.st.passes) - Len(sep_passes)))
         IN  /\ separator_service' =
                   IF constructed THEN "AudioSeparatorService"
                   ELSE separator_service
             /\ IF wanted /\ ~constructed
                THEN \* the constructor raised ImportError
                     /\ ConstructorHandlerCatches("ImportError")
                     /\ sep_log' = Append(sep_log, "ImportError")
                     /\ UNCHANGED <<sep_temp_files, sep_saved_files,
                                    sep_passes, sep_model>>
                     /\ apply_volume_ducking(files, rc)
                ELSE IF wanted /\ r.raised = "none"
                THEN /\ sep_log' = Append(sep_log, "separated")
                     /\ files' = r.st.files
                     /\ sep_temp_files' = r.st.temp
                     /\ sep_saved_files' = r.st.saved
                     /\ sep_passes' = r.st.passes
                     /\ sep_model' = ran
                     /\ background_audio' = r.background
                     /\ background_mode' = "separated"
                     /\ pc' = "mix_audio_tracks"
                     /\ UNCHANGED <<raised, audio_temp_files, ducking>>
                ELSE IF wanted /\ ~SeparationHandlerCatches(r.raised)
                THEN /\ sep_log' = Append(sep_log, r.raised)
                     /\ files' = r.st.files
                     /\ sep_temp_files' = r.st.temp
                     /\ sep_saved_files' = r.st.saved
                     /\ sep_passes' = r.st.passes
                     /\ sep_model' = ran
                     /\ raised' = Exception(r.raised, "separate_audio")
                     /\ pc' = "except"
                     /\ UNCHANGED <<background_audio, background_mode,
                                    audio_temp_files, ducking>>
                ELSE /\ sep_log' = IF wanted THEN Append(sep_log, r.raised)
                                   ELSE sep_log
                     /\ sep_temp_files' =
                           IF wanted THEN r.st.temp ELSE sep_temp_files
                     /\ sep_saved_files' =
                           IF wanted THEN r.st.saved ELSE sep_saved_files
                     /\ sep_passes' =
                           IF wanted THEN r.st.passes ELSE sep_passes
                     /\ sep_model' = IF wanted THEN ran ELSE sep_model
                     /\ apply_volume_ducking(
                           IF wanted THEN r.st.files ELSE files, rc)
    /\ progress' = Append(progress,
                         Report("prepare_background",
                                "Preparing background audio...", Rat(3, 5)))
    /\ UNCHANGED <<config, service, jobVars, speedVars, mixVars, asrVars,
                   translated_segments, tts_temp_files, cloneVars, ttsVars,
                   original_audio, final_video, returned, output_content>>

---------------------------------------------------------------------------
(* DubbingService.create_dubbed_video: the steps around the stages above   *)

\* if not os.path.exists(video_path): raise FileNotFoundError(...)
\* if not translated_segments: raise ValueError(...)
InputError_videoOnly(fs, segs) ==
    IF VideoPath \notin fs THEN "FileNotFoundError" ELSE "none"

InputError(fs, segs) ==
    IF VideoPath \notin fs THEN "FileNotFoundError"
    ELSE IF segs = <<>> THEN "ValueError"
    ELSE "none"

\* the checks made before the try block; what they raise is not wrapped
Validate ==
    /\ pc = "start"
    /\ IF InputError(files, translated_segments) # "none"
       THEN /\ raised' = Exception(InputError(files, translated_segments),
                                   "validate")
            /\ pc' = "raised"
       ELSE /\ pc' = "extract_audio"
            /\ UNCHANGED raised
    /\ UNCHANGED <<config, service, jobVars, progress, speedVars, files, audio_temp_files,
                   mixVars, asrVars, translated_segments, tts_temp_files,
                   cloneVars, ttsVars, bgVars, endVars>>

\* Step 1: audio_service.extract_audio(video_path)
ExtractAudio ==
    /\ pc = "extract_audio"
    /\ \E rc \in ExitStatuses :
         IF VideoPath \notin files
         THEN /\ raised' = Exception("FileNotFoundError", "extract_audio")
              /\ pc' = "except"
              /\ UNCHANGED <<files, audio_temp_files, original_audio>>
         ELSE /\ audio_temp_files' =
                    Append(audio_temp_files, ExtractedAudioPath)
              /\ IF rc = "ok"
                 THEN /\ files' = files \cup {ExtractedAudioPath}
                      /\ original_audio' = ExtractedAudioPath
                      /\ pc' = "setup_voice_cloning"
                      /\ UNCHANGED raised
                 ELSE /\ raised' = Exception("RuntimeError", "extract_audio")
                      /\ pc' = "except"
                      /\ UNCHANGED <<files, original_audio>>
    /\ progress' = Append(progress,
                         Report("extract_audio",
                                "Extracting audio from video...", Rat(1, 10)))
    /\ UNCHANGED <<config, service, jobVars, speedVars, mixVars, asrVars,
                   translated_segments, tts_temp_files, cloneVars, ttsVars,
                   bgVars, final_video, returned, output_content>>

\* a synthesis that starts without waiting for the loop over the speakers
CurationDone_early == TRUE

\* _setup_multi_speaker_cloning has returned: its loop has handled every
\* speaker of the job
CurationDone == cur_i = Len(SpeakerOrder(translated_segments))

\* Step 3, reached when voice cloning is off or every speaker has been
\* handled: the voice is selected and the synthesis starts
SelectVoice ==
    /\ pc = "setup_voice_cloning"
    /\ ~UseVoiceCloning \/ CurationDone
    /\ pc' = "generate_tts"
    /\ progress' =
         Append(progress,
                Report("generate_tts",
                       "Generating speech for translated segments...",
                       Rat(1, 5)))
    /\ UNCHANGED <<config, service, jobVars, speedVars, files, audio_temp_files,
                   mixVars, raised, asrVars, translated_segments,
                   tts_temp_files, cloneVars, ttsVars, bgVars, endVars>>

\* Step 6: audio_service.create_final_video(video_path, mixed_audio)
CreateFinalVideo ==
    /\ pc = "create_final_video"
    /\ \E rc \in ExitStatuses :
         IF VideoPath \notin files \/ mixed_audio \notin files
         THEN /\ raised' = Exception("FileNotFoundError", "create_final_video")
              /\ pc' = "except"
              /\ UNCHANGED <<files, audio_temp_files, final_video>>
         ELSE /\ audio_temp_files' = Append(audio_temp_files, FinalVideoPath)
              /\ IF rc = "ok"
                 THEN /\ files' = files \cup {FinalVideoPath}
                      /\ final_video' = FinalVideoPath
                      /\ pc' = "move"
                      /\ UNCHANGED raised
                 ELSE /\ raised' =
                            Exception("RuntimeError", "create_final_video")
                      /\ pc' = "except"
                      /\ UNCHANGED <<files, final_video>>
    /\ progress' = Append(progress,
                         Report("create_final_video",
                                "Creating final video...", Rat(9, 10)))
    /\ UNCHANGED <<config, service, jobVars, speedVars, mixVars, asrVars,
                   translated_segments, tts_temp_files, cloneVars, ttsVars,
                   bgVars, original_audio, returned, output_content>>

\* what os.remove and os.rename can do
MoveOutcomes == {"ok", "remove_failed", "rename_failed"}

\* what output_path holds before the job: a file made earlier, or nothing
ContentAt(fs) == IF OutputPath \in fs THEN <<"previous">> ELSE <<"absent">>

\* os.remove(path) when os.path.exists(path): what the path holds afterwards
Removed(content) ==
    IF content[Len(content)] = "absent" THEN content
    ELSE Append(content, "absent")

\* a rename that leaves the source where it was
Renamed_copy(fs, src, dst) == fs \cup {dst}

\* os.rename(src, dst): the files afterwards
Renamed(fs, src, dst) == (fs \ {src}) \cup {dst}

\* Step 7: if os.path.exists(output_path): os.remove(output_path);
\* os.rename(final_video, output_path); return output_path
MoveToOutput ==
    /\ pc = "move"
    /\ \E out \in MoveOutcomes :
         IF OutputPath \in files /\ out = "remove_failed"
         THEN /\ raised' = Exception("OSError", "move")
              /\ pc' = "except"
              /\ UNCHANGED <<files, returned, progress, output_content>>
         ELSE IF out = "rename_failed" \/ final_video \notin files
         THEN /\ files' = files \ {OutputPath}
              /\ output_content' = Removed(output_content)
              /\ raised' = Exception("OSError", "move")
              /\ pc' = "except"
              /\ UNCHANGED <<returned, progress>>
         ELSE /\ files' = Renamed(files \ {OutputPath}, final_video, OutputPath)
              /\ output_content' = Append(Removed(output_content), "dubbed")
              /\ returned' = OutputPath
              /\ progress' = Append(progress,
                                    Report("move", "Dubbing complete!", One))
              /\ pc' = "done"
              /\ UNCHANGED raised
    /\ UNCHANGED <<config, service, jobVars, speedVars, audio_temp_files, mixVars,
                   asrVars, translated_segments, tts_temp_files, cloneVars,
                   ttsVars, bgVars, original_audio, final_video>>

\* RuntimeError(f"Failed to create dubbed video: {str(e)}")
Wrapped(e) ==
    Exception("RuntimeError: Failed to create dubbed video: " \o e.type,
              e.stage)

\* except Exception as e: log the error and raise the wrapped one
ExceptHandler ==
    /\ pc = "except"
    /\ raised' = Wrapped(raised)
    /\ pc' = "raised"
    /\ UNCHANGED <<config, service, jobVars, progress, speedVars, files, audio_temp_files,
                   mixVars, asrVars, translated_segments, tts_temp_files,
                   cloneVars, ttsVars, bgVars, endVars>>

\* the paths of a list of temporary files
Range(seq) == { seq[k] : k \in 1..Len(seq) }

\* DubbingService.cleanup, called by the caller once the job has ended:
\* tts_service.cleanup(), audio_service.cleanup_temp_files() and, when a
\* separator was built, separator_service.cleanup(); each deletes the files
\* of its list that exist and clears the list
Cleanup ==
    /\ pc \in {"done", "raised"}
    /\ files' = files \ ( Range(tts_temp_files) \cup Range(audio_temp_files)
                            \cup (IF separator_service # "None"
                                  THEN Range(sep_temp_files) ELSE {}) )
    /\ tts_temp_files' = <<>>
    /\ audio_temp_files' = <<>>
    /\ sep_temp_files' =
         IF separator_service # "None" THEN <<>> ELSE sep_temp_files
    /\ pc' = "cleaned"
    /\ UNCHANGED <<config, service, jobVars, progress, speedVars, mixVars,
                   raised, asrVars, translated_segments, cloneVars, ttsVars,
                   background_audio, background_mode, separator_service,
                   sep_saved_files, sep_log, ducking, sep_passes, sep_model,
                   endVars>>

---------------------------------------------------------------------------
(* Values of the variables of a component that is not running *)

IdleSpeed ==
    /\ text = <<>>
    /\ target_duration = 0
    /\ speed_result = Pending

IdleMix ==
    /\ mixed_audio = NoPath
    /\ mix_cmd = NoCmd

IdleClone ==
    /\ speaker_samples = [s \in SpeakerIds |-> NoSample]
    /\ curation_log = [s \in SpeakerIds |-> NoCuration]
    /\ cur_i = 0

IdleTts ==
    /\ tts_segments = <<>>
    /\ tts_i = 0
    /\ skipped_count = 0
    /\ tts_calls = <<>>

IdleBackground ==
    /\ background_audio = NoPath
    /\ background_mode = "none"
    /\ separator_service = "None"
    /\ sep_temp_files = <<>>
    /\ sep_saved_files = <<>>
    /\ sep_log = <<>>
    /\ ducking = NoDucking
    /\ sep_passes = <<>>
    /\ sep_model = NoSeparator

IdleEnd ==
    /\ original_audio = NoPath
    /\ final_video = NoPath
    /\ returned = NoPath
    /\ output_content = ContentAt(files)

\* no call of the translation service
IdleTranslation ==
    /\ translation = <<>>
    /\ retry = <<>>

\* no call of the voice mapping
IdleVoices == voice_map = <<>>

\* no call of the translation service or of the voice mapping
IdleTrans ==
    /\ IdleTranslation
    /\ IdleVoices

\* no report made yet, no concurrent job
IdleObservers ==
    /\ progress = <<>>
    /\ jobs = <<>>
    /\ file_owner = <<>>
    /\ IdleTrans

IdleJob ==
    /\ IdleObservers
    /\ translated_segments = <<>>
    /\ tts_temp_files = <<>>
    /\ IdleClone
    /\ IdleTts
    /\ IdleBackground
    /\ IdleEnd

---------------------------------------------------------------------------
(* Specification of the speed-fitting function: the arguments are drawn    *)
(* in the initial state and one call is made.                              *)

Services == {"TTSService", "XTTSService"}

InitSpeed ==
    /\ config \in SpeedConfigs
    /\ service \in Services
    /\ text \in Texts
    /\ target_duration \in (-MaxTarget)..MaxTarget
    /\ speed_result = Pending
    /\ pc = "calculate_speed_adjustment"
    /\ files = {}
    /\ audio_temp_files = <<>>
    /\ IdleMix
    /\ raised = NoException
    /\ IdleAsr
    /\ IdleJob

CallCalculateSpeedAdjustment ==
    /\ speed_result = Pending
    /\ speed_result' =
         calculate_speed_adjustment(service, config, text, target_duration)
    /\ UNCHANGED <<config, service, jobVars, progress, text, target_duration, pc, files,
                   audio_temp_files, mixVars, raised, asrVars,
                   translated_segments, tts_temp_files, cloneVars, ttsVars,
                   bgVars, endVars>>

NextSpeed == CallCalculateSpeedAdjustment

SpecSpeed == InitSpeed /\ [][NextSpeed]_vars

SpeedCalled == speed_result # Pending

WithinSpeedBounds(cfg, v) ==
    /\ RatLeq(cfg.min_speed_adjustment, v)
    /\ RatLeq(v, cfg.max_speed_adjustment)

\* C4: for every text and every target_duration, calculate_speed_adjustment
\* of TTSService and of XTTSService returns (raises nothing) a speed factor
\* within [min_speed_adjustment, max_speed_adjustment].
C4_SpeedAlwaysWithinBounds ==
    SpeedCalled =>
        /\ speed_result.raised = "none"
        /\ WithinSpeedBounds(config, speed_result.value)

\* C5: calculate_speed_adjustment returns exactly 1.0 and raises nothing
\* whenever target_duration <= 0 or the estimated duration is <= 0, in both
\* TTSService and XTTSService.
C5_DegenerateReturnsOne ==
    (SpeedCalled /\ (target_duration <= 0 \/ WordCount(text) <= 0)) =>
        /\ speed_result.raised = "none"
        /\ RatEq(speed_result.value, One)

---------------------------------------------------------------------------
(* Specification of mix_audio_tracks: the background, the clip list and    *)
(* the files that exist are drawn in the initial state and one call is     *)
(* made.                                                                   *)

\* clip lists of n clips: the k-th has its own file and any start time
ClipLists(n) ==
    { [k \in 1..n |-> [audio_file |-> ClipPath(k),
                        start_time |-> st[k],
                        end_time |-> st[k] + TicksPerSecond]] :
        st \in [1..n -> 0..MaxStart] }

InitMix ==
    /\ IdleObservers
    /\ config = DefaultConfig
    /\ service = "TTSService"
    /\ text = <<>>
    /\ target_duration = 0
    /\ speed_result = Pending
    /\ pc = "mix_audio_tracks"
    /\ background_audio = DuckedAudioPath
    /\ background_mode = "ducked"
    /\ \E n \in 0..MaxClips :
          /\ tts_segments \in ClipLists(n)
          /\ files \in SUBSET ({DuckedAudioPath} \cup { ClipPath(k) : k \in 1..n })
          /\ tts_i = n
    /\ audio_temp_files = <<DuckedAudioPath>>
    /\ IdleMix
    /\ raised = NoException
    /\ IdleAsr
    /\ translated_segments = <<>>
    /\ tts_temp_files = <<>>
    /\ IdleClone
    /\ skipped_count = 0
    /\ tts_calls = <<>>
    /\ separator_service = "None"
    /\ sep_temp_files = <<>>
    /\ sep_saved_files = <<>>
    /\ sep_log = <<>>
    /\ ducking = NoDucking
    /\ sep_passes = <<>>
    /\ sep_model = NoSeparator
    /\ IdleEnd

NextMix == MixAudioTracks

SpecMix == InitMix /\ [][NextMix]_vars

\* C8: mix_audio_tracks called with an existing background and an empty clip
\* list returns the background path itself, creates no file, registers no
\* temporary file and raises nothing.
C8_EmptyMixIsIdentity ==
    [][ (pc = "mix_audio_tracks" /\ background_audio \in files
            /\ tts_segments = <<>>)
        => /\ mixed_audio' = background_audio
           /\ files' = files
           /\ audio_temp_files' = audio_temp_files
           /\ raised' = NoException
           /\ pc' = "create_final_video" ]_vars

C8_Witness ==
    /\ pc = "create_final_video"
    /\ tts_segments = <<>>
    /\ mixed_audio = background_audio
    /\ background_audio \in files

\* the adelay entries of the command last built
AdelayEntries ==
    { j \in 1..Len(mix_cmd.filter_parts) :
        mix_cmd.filter_parts[j].kind = "adelay" }

\* the file that ffmpeg input number n (0-based) of the command names, if any
CmdInputFile(n) ==
    IF n + 1 \in 1..Len(mix_cmd.inputs) THEN mix_cmd.inputs[n + 1] ELSE NoPath

\* C9: for a non-empty clip list the command mixes the background with every
\* clip whose file exists, each delayed by its own start_time in milliseconds,
\* with 1 + (number of such clips) mix inputs; a missing clip is skipped
\* without changing the audio input or the delay used for any other clip.
C9_EachExistingClipDelayedByOwnStart ==
    (mix_cmd # NoCmd /\ mix_cmd.filter_parts # <<>>) =>
        /\ mix_cmd.num_inputs =
              1 + Cardinality({ k \in 1..Len(tts_segments) :
                                  tts_segments[k].audio_file \in files })
        /\ Cardinality(AdelayEntries) = mix_cmd.num_inputs - 1
        /\ \A k \in 1..Len(tts_segments) :
              tts_segments[k].audio_file \in files =>
                \E j \in AdelayEntries :
                  /\ CmdInputFile(mix_cmd.filter_parts[j].input)
                        = tts_segments[k].audio_file
                  /\ mix_cmd.filter_parts[j].delay_ms
                        = DelayMs(tts_segments[k].start_time)

---------------------------------------------------------------------------
(* Specification of the speaker matcher: a diarization result and one      *)
(* recognised segment are drawn in the initial state and transcribe's      *)
(* conversion loop runs over it.  Turns may overlap one another.           *)

TimePoints == 0..3

Labels == {"SPEAKER_00", "SPEAKER_01"}

Turns ==
    { [start |-> a, end |-> b, label |-> l] :
        a \in TimePoints, b \in TimePoints, l \in Labels }

\* turns of a diarization result have a positive length
ValidTurns == { t \in Turns : t.start < t.end }

\* the turns of one speaker do not overlap one another (turns of different
\* speakers may)
SameSpeakerDisjoint(ts) ==
    \A i, j \in 1..Len(ts) :
        (i # j /\ ts[i].label = ts[j].label) =>
            (ts[i].end <= ts[j].start \/ ts[j].end <= ts[i].start)

WhisperSegments ==
    { [start |-> a, end |-> b, text |-> <<"a">>] :
        a \in TimePoints, b \in TimePoints }

InitMatch ==
    /\ config = DefaultConfig
    /\ service = "TTSService"
    /\ IdleSpeed
    /\ pc = "transcribe"
    /\ files = {}
    /\ audio_temp_files = <<>>
    /\ IdleMix
    /\ raised = NoException
    /\ IdleJob
    /\ whisper_segments \in
          { <<seg>> : seg \in { w \in WhisperSegments : w.start <= w.end } }
    /\ diarization \in
          { [available |-> TRUE, turns |-> ts] :
              ts \in { t \in SeqsUpTo(ValidTurns, MaxTurns) :
                         SameSpeakerDisjoint(t) } }
    /\ result_segments = <<>>
    /\ label_sources = <<>>
    /\ speaker_counter = 0
    /\ asr_i = 0

NextMatch == TranscribeSegment

SpecMatch == InitMatch /\ [][NextMatch]_vars

\* the accumulated overlap of a label's turns with the span [a, b]:
\* the sum over the label's turns of max(0, min(turn.end, b) - max(turn.start, a))
RECURSIVE SumOverlap(_, _, _, _)
SumOverlap(turns, label, a, b) ==
    IF turns = <<>> THEN 0
    ELSE (IF Head(turns).label = label
          THEN Max2(0, Min2(Head(turns).end, b) - Max2(Head(turns).start, a))
          ELSE 0)
         + SumOverlap(Tail(turns), label, a, b)

AccumulatedOverlap(label, r) ==
    SumOverlap(diarization.turns, label, r.start_time, r.end_time)

\* the assigned label is one with the greatest accumulated overlap
HasGreatestOverlap(r) ==
    IF \E l \in Labels : AccumulatedOverlap(l, r) > 0
    THEN /\ r.speaker_id \in Labels
         /\ \A l \in Labels :
               AccumulatedOverlap(l, r) <= AccumulatedOverlap(r.speaker_id, r)
    ELSE r.speaker_id = NoSpeaker

ContainedIn(r, turn) ==
    turn.start <= r.start_time /\ r.end_time <= turn.end

TurnSet == { diarization.turns[k] : k \in 1..Len(diarization.turns) }

\* the turn at position j is the only turn that contains the segment
OnlyContainingTurn(r, j) ==
    /\ ContainedIn(r, diarization.turns[j])
    /\ \A i \in 1..Len(diarization.turns) :
          i # j => ~ContainedIn(r, diarization.turns[i])

\* C6 (as stated): with diarization available, the speaker_id of a segment is
\* the label with the greatest accumulated overlap, and a segment fully
\* contained in one turn (and in no other) is assigned exactly that turn's
\* label.
C6_MaxOverlapAndContainingTurn ==
    diarization.available =>
        \A k \in 1..Len(result_segments) :
            /\ HasGreatestOverlap(result_segments[k])
            /\ \A j \in 1..Len(diarization.turns) :
                  OnlyContainingTurn(result_segments[k], j)
                      => result_segments[k].speaker_id
                           = diarization.turns[j].label

\* C6 (amended): the speaker_id is a label with the greatest accumulated
\* overlap (None when no turn overlaps), and a segment fully contained in one
\* turn is assigned exactly that turn's label provided no turn of a different
\* label overlaps the segment.
C6_MaxOverlapAndContainingTurnIfAlone ==
    diarization.available =>
        \A k \in 1..Len(result_segments) :
            /\ HasGreatestOverlap(result_segments[k])
            /\ \A turn \in TurnSet :
                  ( /\ ContainedIn(result_segments[k], turn)
                    /\ \A l \in Labels \ {turn.label} :
                          AccumulatedOverlap(l, result_segments[k]) = 0 )
                      => result_segments[k].speaker_id = turn.label

\* a segment contained in a turn of one speaker while a turn of the other
\* speaker overlaps it partly has been given its speaker
C6_Witness ==
    /\ diarization.available
    /\ Len(result_segments) = 1
    /\ \E turn \in TurnSet :
          /\ ContainedIn(result_segments[1], turn)
          /\ result_segments[1].speaker_id = turn.label
          /\ \E l \in Labels \ {turn.label} :
                /\ AccumulatedOverlap(l, result_segments[1]) > 0
                /\ AccumulatedOverlap(l, result_segments[1])
                      < AccumulatedOverlap(turn.label, result_segments[1])

---------------------------------------------------------------------------
(* Specification of the curation of the voice samples: the translated      *)
(* segments are drawn in the initial state, the job is at the voice        *)
(* cloning step, and the loop over the speakers runs.                      *)

MaxSegs == 3

\* durations and start times of the segments, in seconds
CurateDurations == {2, 3, 6, 12}

CurateStarts == {0, 20}

CurateSegments ==
    { [start_time |-> a * TicksPerSecond,
       end_time |-> (a + d) * TicksPerSecond,
       text |-> <<"a">>,
       speaker_id |-> sp] :
        a \in CurateStarts, d \in CurateDurations,
        sp \in {NoSpeaker, "speaker_1"} }

InitCurate ==
    /\ IdleObservers
    /\ config = DefaultConfig
    /\ service = "XTTSService"
    /\ IdleSpeed
    /\ pc = "setup_voice_cloning"
    /\ files = {VideoPath, ExtractedAudioPath}
    /\ audio_temp_files = <<ExtractedAudioPath>>
    /\ IdleMix
    /\ raised = NoException
    /\ IdleAsr
    /\ translated_segments \in SeqsUpTo(CurateSegments, MaxSegs)
    /\ tts_temp_files = <<>>
    /\ IdleClone
    /\ IdleTts
    /\ IdleBackground
    /\ original_audio = ExtractedAudioPath
    /\ final_video = NoPath
    /\ returned = NoPath
    /\ output_content = ContentAt(files)

NextCurate == CurateSpeaker

SpecCurate == InitCurate /\ [][NextCurate]_vars

RECURSIVE TotalDuration(_)
TotalDuration(segs) ==
    IF segs = <<>> THEN 0
    ELSE SegDuration(Head(segs)) + TotalDuration(Tail(segs))

Registered(sp) == speaker_samples[sp] # NoSample

CurationFailed(sp) ==
    curation_log[sp].outcome \notin {"none", "single", "combined"}

\* C7: the curation of a speaker's voice sample never yields a sample
\* shorter than min_speaker_sample_duration: when the speaker's segments,
\* one alone or several combined, can reach the minimum, the registered
\* sample is at least that long, and when they cannot, the curation reports
\* an error and registers no sample.
C7_NoSampleShorterThanMinimum ==
    \A j \in 1..cur_i :
        LET sp == SpeakerOrder(translated_segments)[j]
            segs == SegmentsOf(translated_segments, sp)
            canReach == TotalDuration(segs) >= MinSampleDuration(config)
        IN  /\ (canReach /\ Registered(sp)) =>
                  speaker_samples[sp].duration >= MinSampleDuration(config)
            /\ ~canReach => (~Registered(sp) /\ CurationFailed(sp))

---------------------------------------------------------------------------
(* Specification of the synthesis stage: the service, the voice samples    *)
(* and the translated segments are drawn in the initial state, the job is  *)
(* at the synthesis step, and the loop over the segments runs.             *)

SynthTexts == {<<>>, <<" ">>, <<"a">>}

\* durations of the segments, in seconds
SynthDurations == {0, 1}

SynthSegments ==
    { [start_time |-> 0,
       end_time |-> d * TicksPerSecond,
       text |-> t,
       speaker_id |-> sp] :
        d \in SynthDurations, t \in SynthTexts,
        sp \in {NoSpeaker, "speaker_1"} }

SomeSample(sp) ==
    [path |-> SamplePath(sp), duration |-> MinSampleDuration(DefaultConfig)]

SampleTables ==
    { [sp \in SpeakerIds |-> IF sp \in have THEN SomeSample(sp) ELSE NoSample] :
        have \in SUBSET SpeakerIds }

InitSynth ==
    /\ IdleObservers
    /\ config = DefaultConfig
    /\ service \in Services
    /\ IdleSpeed
    /\ pc = "generate_tts"
    /\ speaker_samples \in
          IF service = "XTTSService" THEN SampleTables
          ELSE {[sp \in SpeakerIds |-> NoSample]}
    /\ files = {VideoPath, ExtractedAudioPath} \cup
               ({ speaker_samples[sp].path : sp \in SpeakerIds } \ {NoPath})
    /\ audio_temp_files = <<ExtractedAudioPath>>
    /\ IdleMix
    /\ raised = NoException
    /\ IdleAsr
    /\ translated_segments \in SeqsUpTo(SynthSegments, MaxSegs)
    /\ tts_temp_files = <<>>
    /\ curation_log = [s \in SpeakerIds |-> NoCuration]
    /\ cur_i = 0
    /\ IdleTts
    /\ IdleBackground
    /\ original_audio = ExtractedAudioPath
    /\ final_video = NoPath
    /\ returned = NoPath
    /\ output_content = ContentAt(files)

NextSynth == GenerateTtsSegment \/ ReturnTtsSegments

SpecSynth == InitSynth /\ [][NextSynth]_vars

\* C1: the synthesis stage fails if and only if zero clips were produced,
\* and then with the "no valid TTS segments" error; whenever at least one
\* segment has been synthesized it returns normally.
C1_FailsIffNoClips ==
    /\ pc = "except" => (raised = NoValidTtsSegments /\ tts_segments = <<>>)
    /\ pc = "prepare_background" => tts_segments # <<>>

HasClipOf(k) ==
    \E j \in 1..Len(tts_segments) : tts_segments[j].audio_file = ClipPath(k)

HasCallOf(k) ==
    \E j \in 1..Len(tts_calls) : tts_calls[j].segment = k

\* C10: after n segments have been processed the clips plus the skips are
\* n; a segment with empty or whitespace-only text gives no clip and no TTS
\* call; three segments of which only the middle one is blank and the
\* others are synthesized give 2 clips, 1 skip and no failure.
C10_ClipsPlusSkipsIsProcessed ==
    /\ Len(tts_segments) + skipped_count = tts_i
    /\ \A k \in 1..tts_i :
          IsBlank(translated_segments[k].text) => (~HasClipOf(k) /\ ~HasCallOf(k))
    /\ ( /\ Len(translated_segments) = 3
         /\ tts_i = 3
         /\ IsBlank(translated_segments[2].text)
         /\ HasClipOf(1)
         /\ HasClipOf(3) )
       => ( /\ Len(tts_segments) = 2
            /\ skipped_count = 1
            /\ pc \in {"generate_tts", "prepare_background"} )

C10_Witness ==
    /\ pc = "prepare_background"
    /\ Len(translated_segments) = 3
    /\ translated_segments[2].text = <<" ">>
    /\ Len(tts_segments) = 2
    /\ skipped_count = 1
    /\ tts_i = 3

---------------------------------------------------------------------------
(* Specification of the background preparation: the configuration, the     *)
(* clips, the separator left by an earlier job and the presence of the     *)
(* original audio are drawn in the initial state, and the step runs.       *)

BackgroundConfigs ==
    { [DefaultConfig EXCEPT !.background_preservation_mode = m,
                            !.save_separated_audio = sv,
                            !.use_serial_separation = sr] :
        m \in {"ducking", "separator"}, sv \in BOOLEAN, sr \in BOOLEAN }

InitBackground ==
    /\ IdleObservers
    /\ config \in BackgroundConfigs
    /\ service = "TTSService"
    /\ IdleSpeed
    /\ pc = "prepare_background"
    /\ \E n \in 0..MaxClips :
          /\ tts_segments \in ClipLists(n)
          /\ files \in { {VideoPath} \cup a \cup { ClipPath(k) : k \in 1..n } :
                          a \in SUBSET {ExtractedAudioPath} }
          /\ tts_i = n
          /\ tts_temp_files = [k \in 1..n |-> ClipPath(k)]
    /\ audio_temp_files = <<ExtractedAudioPath>>
    /\ IdleMix
    /\ raised = NoException
    /\ IdleAsr
    /\ translated_segments = <<>>
    /\ IdleClone
    /\ skipped_count = 0
    /\ tts_calls = <<>>
    /\ background_audio = NoPath
    /\ background_mode = "none"
    /\ separator_service \in {"None", "AudioSeparatorService"}
    /\ sep_temp_files = <<>>
    /\ sep_saved_files = <<>>
    /\ sep_log = <<>>
    /\ ducking = NoDucking
    /\ sep_passes = <<>>
    /\ sep_model \in
          IF separator_service = "None" THEN {NoSeparator}
          ELSE { [NewSeparator(config.separation_model)
                     EXCEPT !.loaded = l] :
                   l \in {NoModel, FirstSerialModel, config.separation_model} }
    /\ original_audio = ExtractedAudioPath
    /\ final_video = NoPath
    /\ returned = NoPath
    /\ output_content = ContentAt(files)

NextBackground == PrepareBackgroundAudio

SpecBackground == InitBackground /\ [][NextBackground]_vars

\* the separator could not be built or a separation call raised
SeparationFailed ==
    \E j \in 1..Len(sep_log) : sep_log[j] # "separated"

\* C3: in separator mode, when the separator cannot be constructed
\* (ImportError) or a separation call raises, _prepare_background_audio
\* does not propagate that error; it goes on in ducked mode, and the track
\* it returns is the one obtained by ducking the original audio.
C3_SeparationFailureDowngradesToDucking ==
    ( /\ config.background_preservation_mode = "separator"
      /\ pc # "prepare_background"
      /\ SeparationFailed )
    => /\ raised.stage # "separate_audio"
       /\ pc = "mix_audio_tracks" =>
            /\ background_mode = "ducked"
            /\ background_audio =
                  IF tts_segments = <<>> THEN original_audio
                  ELSE DuckedAudioPath
            /\ background_audio \in files
       /\ pc = "except" => raised.stage = "apply_volume_ducking"

C3_Witness ==
    /\ config.background_preservation_mode = "separator"
    /\ pc = "mix_audio_tracks"
    /\ \E j \in 1..Len(sep_log) : sep_log[j] = "RuntimeError"
    /\ background_mode = "ducked"
    /\ background_audio = DuckedAudioPath

---------------------------------------------------------------------------
(* Specification of a dubbing job: create_dubbed_video is called with a    *)
(* service, a configuration, a list of translated segments and a file      *)
(* system drawn in the initial state, and runs to its end.                 *)

JobSegments ==
    { [start_time |-> 0, end_time |-> TicksPerSecond,
       text |-> <<"a">>, speaker_id |-> NoSpeaker],
      [start_time |-> 0, end_time |-> TicksPerSecond,
       text |-> <<" ">>, speaker_id |-> NoSpeaker],
      [start_time |-> TicksPerSecond, end_time |-> TicksPerSecond,
       text |-> <<"a">>, speaker_id |-> "speaker_1"],
      [start_time |-> TicksPerSecond,
       end_time |-> (1 + MinSpeakerSampleSeconds) * TicksPerSecond,
       text |-> <<"a">>, speaker_id |-> "speaker_1"] }

JobConfigs ==
    { [DefaultConfig EXCEPT !.background_preservation_mode = m] :
        m \in {"ducking", "separator"} }

Init ==
    /\ IdleObservers
    /\ config \in JobConfigs
    /\ service \in Services
    /\ IdleSpeed
    /\ pc = "start"
    /\ files \in {{}, {VideoPath}, {VideoPath, OutputPath}}
    /\ audio_temp_files = <<>>
    /\ IdleMix
    /\ raised = NoException
    /\ IdleAsr
    /\ translated_segments \in SeqsUpTo(JobSegments, MaxSegs)
    /\ tts_temp_files = <<>>
    /\ IdleClone
    /\ IdleTts
    /\ IdleBackground
    /\ IdleEnd

Next ==
    \/ Validate
    \/ ExtractAudio
    \/ CurateSpeaker
    \/ SelectVoice
    \/ GenerateTtsSegment
    \/ ReturnTtsSegments
    \/ PrepareBackgroundAudio
    \/ MixAudioTracks
    \/ CreateFinalVideo
    \/ MoveToOutput
    \/ ExceptHandler
    \/ Cleanup

Spec == Init /\ [][Next]_vars

\* the files made by the job that are not its result
IntermediateFiles == files \ {VideoPath, OutputPath}

\* the error has reached the caller and comes from a stage of the try block
StageFailedFatally == pc = "raised" /\ raised.stage # "validate"

JobStages ==
    {"extract_audio", "setup_voice_cloning", "generate_tts",
     "apply_volume_ducking", "separate_audio", "mix_audio_tracks",
     "create_final_video", "move"}

\* C2: when a stage of create_dubbed_video fails fatally, then when the
\* error reaches the caller every intermediate file made by the job has
\* been deleted, and the error is the single wrapped error of the stage.
C2_FailureLeavesNoIntermediateFile ==
    StageFailedFatally =>
        /\ IntermediateFiles = {}
        /\ raised.stage \in JobStages
        /\ \E e \in [type : {"FileNotFoundError", "RuntimeError", "OSError",
                             "ZeroDivisionError", NoValidTtsSegments.type},
                      stage : JobStages] : raised = Wrapped(e)

Sampled(sp) == sp \in SpeakerIds /\ speaker_samples[sp] # NoSample

\* C11: under voice cloning every call of the TTS service is made with the
\* segment's own speaker (speaker_0 without speaker_id) when that speaker
\* has a registered sample, else with speaker_0 when speaker_0 has one; a
\* segment for which neither has a sample is skipped without a call, so no
\* call is ever made with a speaker id that has no registered sample.
C11_VoiceIsOwnSampleElseDefaultElseSkip ==
    UseVoiceCloning =>
        /\ \A j \in 1..Len(tts_calls) :
              LET seg == translated_segments[tts_calls[j].segment]
              IN  /\ Sampled(tts_calls[j].voice)
                  /\ tts_calls[j].voice =
                        IF Sampled(SpeakerOf(seg)) THEN SpeakerOf(seg)
                        ELSE "speaker_0"
        /\ \A k \in 1..tts_i :
              ( /\ ~Sampled(SpeakerOf(translated_segments[k]))
                /\ ~Sampled("speaker_0") )
              => (~HasCallOf(k) /\ ~HasClipOf(k))

C11_Witness ==
    /\ UseVoiceCloning
    /\ \E j \in 1..Len(tts_calls) :
          /\ SpeakerOf(translated_segments[tts_calls[j].segment]) = "speaker_1"
          /\ tts_calls[j].voice = "speaker_0"
    /\ \E k \in 1..Len(tts_segments) :
          tts_segments[k].audio_file \in files

\* C12: a call of create_dubbed_video with a missing video or with an empty
\* list of translated segments is rejected with an input error before any
\* stage starts: nothing is reported to the observer, no transcoding,
\* synthesis or separation call is made and no file is created.
C12_InputErrorsRejectedBeforeAnyStage ==
    (pc # "start" /\ (VideoPath \notin files \/ translated_segments = <<>>))
    => /\ pc \in {"raised", "cleaned"}
       /\ raised \in { Exception(t, "validate") :
                         t \in {"FileNotFoundError", "ValueError"} }
       /\ progress = <<>>
       /\ tts_calls = <<>>
       /\ sep_passes = <<>>
       /\ mix_cmd = NoCmd
       /\ audio_temp_files = <<>>
       /\ tts_temp_files = <<>>
       /\ files \subseteq {VideoPath, OutputPath}
       /\ \A sp \in SpeakerIds : curation_log[sp] = NoCuration

C12_Witness ==
    /\ pc = "raised"
    /\ VideoPath \in files
    /\ translated_segments = <<>>
    /\ raised = Exception("ValueError", "validate")

\* the steps that have reported to the observer, in the order of their
\* first report
RECURSIVE StagesOf(_)
StagesOf(reports) ==
    IF reports = <<>> THEN <<>>
    ELSE LET before == StagesOf(SubSeq(reports, 1, Len(reports) - 1))
             stage == reports[Len(reports)].stage
         IN  IF before # <<>> /\ before[Len(before)] = stage THEN before
             ELSE Append(before, stage)

IsPrefix(a, b) == Len(a) <= Len(b) /\ a = SubSeq(b, 1, Len(a))

\* extract audio, curate voice samples (under voice cloning only),
\* synthesize, prepare background, remix, mux, move
ExpectedStages(svc) ==
    <<"extract_audio">> \o
    (IF svc = "XTTSService" THEN <<"setup_voice_cloning">> ELSE <<>>) \o
    <<"generate_tts", "prepare_background", "mix_audio_tracks",
      "create_final_video", "move">>

\* C13: in every run of create_dubbed_video the stages start in the order
\* extract audio, curate voice samples (only under voice cloning),
\* synthesize, prepare background, remix, mux, move; none is skipped or
\* repeated, and a stage starts only when no earlier stage failed fatally.
C13_StagesStartInFixedOrder ==
    [][ /\ IsPrefix(StagesOf(progress'), ExpectedStages(service))
        /\ pc' = "move" =>
              /\ raised' = NoException
              /\ Append(StagesOf(progress'), "move") = ExpectedStages(service)
        /\ progress' # progress => raised = NoException ]_vars

C13_Witness ==
    /\ pc = "done"
    /\ service = "XTTSService"
    /\ StagesOf(progress) = ExpectedStages(service)

\* C14: once the job has ended and cleanup has run, after a success and
\* after a failure alike, no file made by the job remains except the output
\* video: every intermediate file was deleted by the job or by cleanup.
C14_NoTemporaryFileAfterCleanup ==
    pc = "cleaned" => files \subseteq {VideoPath, OutputPath}

\* the times at which the track is sampled
TrackTimes == 0 .. (MaxStart + TicksPerSecond + 1)

\* -20 dB as an amplitude ratio: 10 ^ (-20 / 20)
MinusTwentyDbGain == Rat(1, 10)

\* C15: in ducked mode the background track is the original track
\* attenuated by -20 dB (a tenth of the amplitude) uniformly: the gain is
\* the same at every time, inside and outside the clips' windows, whatever
\* the clip list is.
C15_DuckingIsUniformMinus20dB ==
    (pc = "mix_audio_tracks" /\ background_mode = "ducked")
    => \A t \in TrackTimes :
          RatEq(GainAt(ducking, t), MinusTwentyDbGain)

C17_SampleMapFrozenDuringSynthesis ==
    [][ /\ (UseVoiceCloning /\ tts_calls' # <<>>)
           => /\ cur_i' = Len(SpeakerOrder(translated_segments'))
              /\ \A sp \in SpeakerIds :
                    (\E k \in 1..Len(translated_segments') :
                        SpeakerOf(translated_segments'[k]) = sp)
                    => curation_log'[sp] # NoCuration
        /\ (tts_calls # <<>> \/ tts_calls' # tts_calls)
           => speaker_samples' = speaker_samples ]_vars

C17_Witness ==
    /\ UseVoiceCloning
    /\ pc = "done"
    /\ Len(tts_calls) >= 2
    /\ \E sp \in SpeakerIds : Sampled(sp)
    /\ \E sp \in SpeakerIds : curation_log[sp] # NoCuration /\ ~Sampled(sp)

---------------------------------------------------------------------------
(* Specification of concurrent jobs: NumJobs threads of one process each   *)
(* run create_dubbed_video and then cleanup on a DubbingService of their   *)
(* own; a step is one stage of one job, and the stages of different jobs   *)
(* interleave freely. Only the files of the stages are followed.           *)

NumJobs == 2

JobIds == 1..NumJobs

NoJob == 0

\* the stems of the videos the jobs are given
VideoStems == {"a", "b"}

\* tempfile.gettempdir(): the same directory for every caller of a process
GetTempDir == "tmp"

\* AudioProcessingService.__init__(temp_dir=None), as DubbingService builds
\* it: self.temp_dir = temp_dir or tempfile.gettempdir()
TempDirOf(j) == GetTempDir

\* os.path.join(dir, name)
JoinPath(dir, name) == dir \o "/" \o name

\* os.path.join(self.temp_dir, f"{video_name}_audio.wav")
JobExtractedAudioPath(job) == JoinPath(job.temp_dir, job.stem \o "_audio.wav")

\* os.path.join(self.temp_dir, "ducked_audio.wav")
JobDuckedAudioPath(job) == JoinPath(job.temp_dir, "ducked_audio.wav")

\* os.path.join(self.temp_dir, "mixed_audio.wav")
JobMixedAudioPath(job) == JoinPath(job.temp_dir, "mixed_audio.wav")

\* os.path.join(self.temp_dir, f"{video_name}_dubbed.mp4")
JobFinalVideoPath(job) == JoinPath(job.temp_dir, job.stem \o "_dubbed.mp4")

\* tempfile.NamedTemporaryFile(suffix='.wav', delete=False): a fresh name
JobClipPath(j) == "tts_job" \o ToString(j) \o ".wav"

\* every path a job can write
JobPaths ==
    { JoinPath(GetTempDir, st \o sfx) :
        st \in VideoStems, sfx \in {"_audio.wav", "_dubbed.mp4"} }
    \cup { JoinPath(GetTempDir, n) : n \in {"ducked_audio.wav",
                                            "mixed_audio.wav"} }
    \cup { JobClipPath(j) : j \in JobIds }

NewJob(j, stem) ==
    [pc |-> "extract_audio", stem |-> stem, temp_dir |-> TempDirOf(j),
     temp_files |-> <<>>, tts_files |-> <<>>, foreign |-> {}]

\* the variables of the single job, which the concurrent jobs leave alone
singleJobVars ==
    <<config, service, speedVars, pc, files, audio_temp_files, mixVars,
      raised, asrVars, translated_segments, tts_temp_files, cloneVars,
      ttsVars, bgVars, endVars, progress, transVars>>

\* the paths of ps that hold a file last written by another job than j
ForeignAmong(j, ps) == { p \in ps : file_owner[p] \notin {NoJob, j} }

Touch(j, kind, ps) == IF ForeignAmong(j, ps) # {} THEN {kind} ELSE {}

\* one transcoding call of job j: the inputs ins must exist, out is tracked
\* before the call and written (over whatever is there) when it succeeds
Transcode(j, ins, out, next, rc) ==
    LET job == jobs[j]
    IN  IF \E p \in ins : file_owner[p] = NoJob
        THEN /\ jobs' = [jobs EXCEPT ![j].pc = "raised"]
             /\ UNCHANGED file_owner
        ELSE IF rc = "ok"
        THEN /\ jobs' = [jobs EXCEPT
                           ![j].pc = next,
                           ![j].temp_files = Append(@, out),
                           ![j].foreign = @ \cup Touch(j, "read", ins)
                                            \cup Touch(j, "overwrite", {out})]
             /\ file_owner' = [file_owner EXCEPT ![out] = j]
        ELSE /\ jobs' = [jobs EXCEPT
                           ![j].pc = "raised",
                           ![j].temp_files = Append(@, out),
                           ![j].foreign = @ \cup Touch(j, "read", ins)]
             /\ UNCHANGED file_owner

\* Step 1 of job j: audio_service.extract_audio(video_path)
JobExtractAudio(j) ==
    /\ jobs[j].pc = "extract_audio"
    /\ \E rc \in ExitStatuses :
          Transcode(j, {}, JobExtractedAudioPath(jobs[j]), "generate_tts", rc)
    /\ UNCHANGED singleJobVars

\* Step 4 of job j: one clip is synthesized into a file of a fresh name
JobGenerateTts(j) ==
    /\ jobs[j].pc = "generate_tts"
    /\ \E out \in SpeechOutcomes :
          IF out = "ok"
          THEN /\ jobs' = [jobs EXCEPT
                             ![j].pc = "prepare_background",
                             ![j].tts_files = Append(@, JobClipPath(j))]
               /\ file_owner' = [file_owner EXCEPT ![JobClipPath(j)] = j]
          ELSE /\ jobs' = [jobs EXCEPT ![j].pc = "raised"]
               /\ UNCHANGED file_owner
    /\ UNCHANGED singleJobVars

\* Step 5a of job j: apply_volume_ducking(original_audio, ...)
JobPrepareBackground(j) ==
    /\ jobs[j].pc = "prepare_background"
    /\ \E rc \in ExitStatuses :
          Transcode(j, {JobExtractedAudioPath(jobs[j])},
                    JobDuckedAudioPath(jobs[j]), "mix_audio_tracks", rc)
    /\ UNCHANGED singleJobVars

\* Step 5b of job j: mix_audio_tracks(background_audio, tts_segments)
JobMixAudioTracks(j) ==
    /\ jobs[j].pc = "mix_audio_tracks"
    /\ \E rc \in ExitStatuses :
          Transcode(j, {JobDuckedAudioPath(jobs[j])},
                    JobMixedAudioPath(jobs[j]), "create_final_video", rc)
    /\ UNCHANGED singleJobVars

\* Step 6 of job j: create_final_video(video_path, mixed_audio)
JobCreateFinalVideo(j) ==
    /\ jobs[j].pc = "create_final_video"
    /\ \E rc \in ExitStatuses :
          Transcode(j, {JobMixedAudioPath(jobs[j])},
                    JobFinalVideoPath(jobs[j]), "move", rc)
    /\ UNCHANGED singleJobVars

\* Step 7 of job j: os.rename(final_video, output_path)
JobMoveToOutput(j) ==
    /\ jobs[j].pc = "move"
    /\ LET final == JobFinalVideoPath(jobs[j])
       IN  IF file_owner[final] = NoJob
           THEN /\ jobs' = [jobs EXCEPT ![j].pc = "raised"]
                /\ UNCHANGED file_owner
           ELSE /\ jobs' = [jobs EXCEPT
                              ![j].pc = "done",
                              ![j].foreign = @ \cup Touch(j, "read", {final})]
                /\ file_owner' = [file_owner EXCEPT ![final] = NoJob]
    /\ UNCHANGED singleJobVars

\* cleanup() of job j's service, called once its job has ended
JobCleanup(j) ==
    /\ jobs[j].pc \in {"done", "raised"}
    /\ LET tracked == Range(jobs[j].temp_files) \cup Range(jobs[j].tts_files)
       IN  /\ jobs' = [jobs EXCEPT
                         ![j].pc = "cleaned",
                         ![j].temp_files = <<>>,
                         ![j].tts_files = <<>>,
                         ![j].foreign = @ \cup Touch(j, "delete", tracked)]
           /\ file_owner' = [p \in JobPaths |->
                               IF p \in tracked THEN NoJob ELSE file_owner[p]]
    /\ UNCHANGED singleJobVars

InitJobs ==
    /\ config = DefaultConfig
    /\ service = "TTSService"
    /\ IdleSpeed
    /\ pc = "start"
    /\ files = {VideoPath}
    /\ audio_temp_files = <<>>
    /\ IdleMix
    /\ raised = NoException
    /\ IdleAsr
    /\ translated_segments = <<>>
    /\ tts_temp_files = <<>>
    /\ IdleClone
    /\ IdleTts
    /\ IdleBackground
    /\ IdleEnd
    /\ progress = <<>>
    /\ IdleTrans
    /\ jobs \in { [j \in JobIds |-> NewJob(j, st[j])] :
                    st \in [JobIds -> VideoStems] }
    /\ file_owner = [p \in JobPaths |-> NoJob]

NextJobs ==
    \E j \in JobIds :
        \/ JobExtractAudio(j)
        \/ JobGenerateTts(j)
        \/ JobPrepareBackground(j)
        \/ JobMixAudioTracks(j)
        \/ JobCreateFinalVideo(j)
        \/ JobMoveToOutput(j)
        \/ JobCleanup(j)

SpecJobs == InitJobs /\ [][NextJobs]_vars

\* C18: concurrent jobs of one process are isolated: the intermediate files
\* of different jobs are in different temporary directories, so that no two
\* jobs write the same path, and no job reads, overwrites or deletes a file
\* last written by another job.
C18_ConcurrentJobsAreIsolated ==
    /\ \A i, j \in JobIds :
          i # j => Range(jobs[i].temp_files) \cap Range(jobs[j].temp_files)
                      = {}
    /\ \A j \in JobIds : jobs[j].foreign = {}

---------------------------------------------------------------------------
(* Specification of a dubbing job whose transcoder may hang. Every call of *)
(* the transcoder is subprocess.run(cmd, capture_output=True, text=True)   *)
(* or ffmpeg-python's run(): neither is given a timeout, so the caller     *)
(* waits until the transcoder exits. The interpreter runs the statements   *)
(* of the job one after the other, whence the weak fairness of the steps.  *)

\* the next statement of the job runs the transcoder
TranscoderCalled ==
    \/ pc = "extract_audio" /\ VideoPath \in files
    \/ /\ pc = "setup_voice_cloning"
       /\ UseVoiceCloning
       /\ cur_i < Len(SpeakerOrder(translated_segments))
    \/ pc = "prepare_background" /\ original_audio \in files
                                 /\ tts_segments # <<>>
    \/ pc = "mix_audio_tracks" /\ background_audio \in files
                               /\ ~MixShortCircuits(tts_segments)
    \/ pc = "create_final_video" /\ VideoPath \in files
                                 /\ mixed_audio \in files

\* the transcoder never exits: the call never returns and the job stays in
\* it, no statement after the call being ever run
TranscoderHangs ==
    /\ TranscoderCalled
    /\ pc' = "blocked"
    /\ UNCHANGED <<config, service, jobVars, progress, speedVars, files,
                   audio_temp_files, mixVars, raised, asrVars,
                   translated_segments, tts_temp_files, cloneVars, ttsVars,
                   bgVars, endVars>>

NextOrHang == Next \/ TranscoderHangs

SpecFair == Init /\ [][NextOrHang]_vars /\ WF_vars(NextOrHang)

\* create_dubbed_video has returned the output or raised its error
Terminated == pc \in {"done", "raised", "cleaned"}

\* C19: every call of the transcoder is bounded by a timeout, a call that
\* hangs being ended and treated as a failure of its stage: the job never
\* stays blocked in a call, and create_dubbed_video always terminates, with
\* an output video or with an error.
C19_JobAlwaysTerminates == <>Terminated

---------------------------------------------------------------------------
(* Specification of the labelling of a transcript without usable           *)
(* diarization: the recogniser's segments are drawn in the initial state,  *)
(* the diarization has failed (None) or has returned an empty annotation,  *)
(* and the loop of transcribe runs over the segments.                      *)

MaxHeuristicSegs == 4

\* the silence before a segment and the length of a segment, in ticks
HeuristicGaps == {0, 2 * TicksPerSecond, 2 * TicksPerSecond + 1}

HeuristicLengths == {0, 1}

\* the segments laid out one after the other: each starts gap ticks after
\* the end of the one before it
RECURSIVE LayOut(_, _)
LayOut(shapes, from) ==
    IF shapes = <<>> THEN <<>>
    ELSE LET start == from + Head(shapes).gap
             end == start + Head(shapes).length
         IN  <<[start |-> start, end |-> end, text |-> <<"a">>]>>
             \o LayOut(Tail(shapes), end)

\* diarization_result is an annotation without any turn
EmptyDiarization == [available |-> TRUE, turns |-> <<>>]

InitHeuristic ==
    /\ config \in { [DefaultConfig EXCEPT !.enable_speaker_detection = en] :
                      en \in BOOLEAN }
    /\ service = "TTSService"
    /\ IdleSpeed
    /\ pc = "transcribe"
    /\ files = {}
    /\ audio_temp_files = <<>>
    /\ IdleMix
    /\ raised = NoException
    /\ IdleJob
    /\ whisper_segments \in
          { LayOut(shapes, 0) :
              shapes \in SeqsUpTo([gap : HeuristicGaps,
                                   length : HeuristicLengths],
                                  MaxHeuristicSegs) }
    /\ diarization \in
          IF config.enable_speaker_detection
          THEN {NoDiarization, EmptyDiarization}
          ELSE {NoDiarization}
    /\ result_segments = <<>>
    /\ label_sources = <<>>
    /\ speaker_counter = 0
    /\ asr_i = 0

NextHeuristic == TranscribeSegment

SpecHeuristic == InitHeuristic /\ [][NextHeuristic]_vars

\* the pool of synthetic speaker slots
SpeakerSlots == { "speaker_" \o ToString(n) : n \in 1..4 }

\* C20: with speaker detection enabled and a diarization that failed or
\* returned nothing, every segment of the transcript has a slot of the
\* pool speaker_1..speaker_4; a segment whose gap from the end of the
\* segment before it is at most 2 seconds has the slot of that segment, and
\* one whose gap exceeds 2 seconds has another slot.
C20_GapHeuristicLabelsSegments ==
    ( /\ config.enable_speaker_detection
      /\ ~diarization.available \/ diarization.turns = <<>> )
    => \A k \in 1..Len(result_segments) :
          /\ result_segments[k].speaker_id \in SpeakerSlots
          /\ k > 1 =>
               LET gap == result_segments[k].start_time
                            - result_segments[k - 1].end_time
               IN  IF gap <= 2 * TicksPerSecond
                   THEN result_segments[k].speaker_id
                           = result_segments[k - 1].speaker_id
                   ELSE result_segments[k].speaker_id
                           # result_segments[k - 1].speaker_id

---------------------------------------------------------------------------
(* Specification of the provenance of speaker labels: the diarization has  *)
(* failed or has returned turns, whose labels are whatever strings the     *)
(* pipeline chose, and the loop of transcribe runs over the segments.      *)

MaxSourceSegs == 2

MaxSourceTurns == 2

\* labels a diarization pipeline can return: transcribe copies them as they
\* are and puts no constraint on their spelling
PipelineLabels == {"SPEAKER_00", "speaker_2"}

SourceTurns ==
    { [start |-> a, end |-> b, label |-> l] :
        a \in TimePoints, b \in TimePoints, l \in PipelineLabels }

InitSource ==
    /\ config = DefaultConfig
    /\ service = "TTSService"
    /\ IdleSpeed
    /\ pc = "transcribe"
    /\ files = {}
    /\ audio_temp_files = <<>>
    /\ IdleMix
    /\ raised = NoException
    /\ IdleJob
    /\ whisper_segments \in
          { LayOut(shapes, 0) :
              shapes \in SeqsUpTo([gap : {0, 2 * TicksPerSecond + 1},
                                   length : {1}],
                                  MaxSourceSegs) }
    /\ diarization \in
          {NoDiarization} \cup
          { [available |-> TRUE, turns |-> ts] :
              ts \in { t \in SeqsUpTo({ u \in SourceTurns : u.start < u.end },
                                      MaxSourceTurns) :
                         SameSpeakerDisjoint(t) } }
    /\ result_segments = <<>>
    /\ label_sources = <<>>
    /\ speaker_counter = 0
    /\ asr_i = 0

NextSource == TranscribeSegment

SpecSource == InitSource /\ [][NextSource]_vars

\* what a later stage can tell about a label from the Segment it is handed:
\* Segment has the fields start_time, end_time, text, speaker_id and
\* confidence, so only the spelling of speaker_id is left to go by
SourceReadFrom(seg) ==
    IF seg.speaker_id = NoSpeaker THEN "none"
    ELSE IF seg.speaker_id \in SpeakerSlots THEN "heuristic"
    ELSE "diarization"

\* C21: labels of the gap heuristic are distinguishable downstream from
\* diarization-backed labels: for every transcribed segment the data handed
\* to later stages determines which of the two its speaker_id came from.
C21_LabelSourceIsDetermined ==
    \A k \in 1..Len(result_segments) :
        SourceReadFrom(result_segments[k]) = label_sources[k]

---------------------------------------------------------------------------
(* Ties of the matcher, under SpecMatch                                    *)

\* the labels whose accumulated overlap with r is the greatest
TiedLabels(r) ==
    { l \in Labels :
        /\ AccumulatedOverlap(l, r) > 0
        /\ \A m \in Labels : AccumulatedOverlap(m, r) <= AccumulatedOverlap(l, r) }

\* the turns of the tied labels that overlap r
TiedTurns(r) ==
    { j \in 1..Len(diarization.turns) :
        /\ diarization.turns[j].label \in TiedLabels(r)
        /\ TurnOverlap(diarization.turns[j],
                       [start |-> r.start_time, end |-> r.end_time]) > 0 }

\* C22: when two or more labels have the same maximal accumulated overlap
\* with a segment, the segment is given the label of the turn that starts
\* earliest among the turns of the tied labels.
C22_TieGoesToEarliestTurnStart ==
    \A k \in 1..Len(result_segments) :
        LET r == result_segments[k]
        IN  Cardinality(TiedLabels(r)) >= 2 =>
              \E j \in TiedTurns(r) :
                  /\ diarization.turns[j].label = r.speaker_id
                  /\ \A i \in TiedTurns(r) :
                        diarization.turns[j].start <= diarization.turns[i].start

---------------------------------------------------------------------------
(* The clip list, under SpecSynth                                          *)

\* the position in translated_segments of the segment a clip was made from
OriginOf(clip) ==
    CHOOSE k \in 0..Len(translated_segments) :
        \/ k > 0 /\ clip.audio_file = ClipPath(k)
        \/ k = 0 /\ \A j \in 1..Len(translated_segments) :
                       clip.audio_file # ClipPath(j)

\* the segments for which generate_speech was called and returned a file
Synthesized ==
    { k \in 1..tts_i :
        /\ \E c \in 1..Len(tts_calls) : tts_calls[c].segment = k
        /\ \E j \in 1..Len(tts_segments) :
              tts_segments[j].audio_file = ClipPath(k) }

\* C23: the clip list is the list of the segments not skipped, in the order
\* of the segments; every clip has the start_time and end_time of the
\* segment it was made from (so start_time < end_time when the segment has
\* it), whatever the speed factor and the length of the synthesized audio.
C23_ClipsKeepOrderAndTimes ==
    /\ Len(tts_segments) = Cardinality(Synthesized)
    /\ \A j \in 1..Len(tts_segments) :
          LET k == OriginOf(tts_segments[j])
          IN  /\ k \in Synthesized
              /\ tts_segments[j].start_time = translated_segments[k].start_time
              /\ tts_segments[j].end_time = translated_segments[k].end_time
              /\ (translated_segments[k].start_time
                     < translated_segments[k].end_time)
                 => tts_segments[j].start_time < tts_segments[j].end_time
              /\ j > 1 => OriginOf(tts_segments[j - 1]) < k

C23_Witness ==
    /\ pc # "generate_tts"
    /\ Len(tts_segments) = 2
    /\ OriginOf(tts_segments[1]) = 1
    /\ OriginOf(tts_segments[2]) = 3
    /\ tts_segments[2].start_time = translated_segments[3].start_time
    /\ tts_segments[2].end_time = tts_segments[2].start_time

---------------------------------------------------------------------------
(* The translation service: one call of translate_segments, under          *)
(* SpecTranslate. The Gemini client, its failures, the lines of its        *)
(* responses and the outcome of the NLLB fallback are chosen freely.       *)

\* longest list of segments handed to translate_segments
MaxTransSegs == 2

\* self.max_retries
MaxRetries == 3

\* the cap on the size of a batch sent to the API
ApiBatchLimit == 10

\* config.batch_size
TransBatchSizes == {1, 2, ApiBatchLimit + 1}

\* the k-th segment of a transcript: one second long, one after the other
TransSegmentsAt(k) ==
    { [start_time |-> (k - 1) * TicksPerSecond,
       end_time |-> k * TicksPerSecond,
       text |-> t,
       speaker_id |-> sp,
       confidence |-> c] :
        t \in {<<>>, <<"a">>}, sp \in {NoSpeaker, "speaker_1"},
        c \in {Rat(1, 2), One} }

TransSegmentLists ==
    UNION { { l \in [1..n -> UNION { TransSegmentsAt(k) : k \in 1..n }] :
                \A k \in 1..n : l[k] \in TransSegmentsAt(k) } :
            n \in 0..MaxTransSegs }

\* the lines a response of the API is made of
ResponseLines == {<<" ">>, <<"x">>, <<"1", ".", " ", "x">>}

\* what the NLLB model returns for a text
NllbText == <<"y">>

Digits == {"0", "1", "2", "3", "4", "5", "6", "7", "8", "9"}

\* line.split('. ', 1)[1] when '. ' in line, else the line
AfterNumbering(line) ==
    LET at == { i \in 1..(Len(line) - 1) :
                  line[i] = "." /\ line[i + 1] = " " }
    IN  IF at = {} THEN line
        ELSE LET i == CHOOSE i \in at : \A j \in at : i <= j
             IN  SubSeq(line, i + 2, Len(line))

\* the loop of _parse_gemini_response over the lines
RECURSIVE ParsedLines(_)
ParsedLines(lines) ==
    IF lines = <<>> THEN <<>>
    ELSE LET line == Strip(Head(lines))
         IN  IF line = <<>> THEN ParsedLines(Tail(lines))
             ELSE IF line[1] \in Digits
             THEN <<AfterNumbering(line)>> \o ParsedLines(Tail(lines))
             ELSE <<line>> \o ParsedLines(Tail(lines))

\* _parse_gemini_response: padded with "" and cut to expected_count
parse_gemini_response(lines, expected_count) ==
    LET translations == ParsedLines(lines)
    IN  [i \in 1..expected_count |->
           IF i <= Len(translations) THEN translations[i] ELSE <<>>]

\* a translated segment that forgets who spoke
TranslatedSegment_unlabelled(segment, translated_texts, i) ==
    [start_time |-> segment.start_time,
     end_time |-> segment.end_time,
     text |-> IF i <= Len(translated_texts) THEN translated_texts[i]
              ELSE segment.text,
     speaker_id |-> NoSpeaker,
     confidence |-> segment.confidence]

\* Segment(start_time=segment.start_time, ..., text=translated_texts[i] if
\* i < len(translated_texts) else segment.text, ...), i counted from 1
TranslatedSegment(segment, translated_texts, i) ==
    [start_time |-> segment.start_time,
     end_time |-> segment.end_time,
     text |-> IF i <= Len(translated_texts) THEN translated_texts[i]
              ELSE segment.text,
     speaker_id |-> segment.speaker_id,
     confidence |-> segment.confidence]

\* the loop at the end of translate_segments
TranslatedSegments(segments, translated_texts) ==
    [i \in 1..Len(segments) |->
       TranslatedSegment(segments[i], translated_texts, i)]

\* no error raised
NoError == 0

\* the loop of _translate_batch_with_retry goes one attempt too far
LastAttempt_late(attempt) == ~(attempt < MaxRetries)

\* not (attempt < self.max_retries - 1)
LastAttempt(attempt) == ~(attempt < MaxRetries - 1)

\* texts[i:i + batch_size], i counted from 1
BatchAt(texts, i, batch_size) ==
    SubSeq(texts, i, Min2(i + batch_size - 1, Len(texts)))

\* min(self.config.batch_size, 10)
ApiBatchSize(batch_size) == Min2(batch_size, ApiBatchLimit)

\* a call of _translate_batch_with_retry that has made no attempt yet
NewRetry(batch, delay, calls) ==
    [pc |-> "trying",
     batch |-> batch,
     attempt |-> 0,
     outcomes |-> <<>>,
     result |-> <<>>,
     raised |-> NoError,
     rate_limit_delay |-> delay,
     calls |-> calls]

\* what is kept of a call that has ended
CallRecord(r) == [pc |-> r.pc, batch |-> r.batch, outcomes |-> r.outcomes,
                  result |-> r.result, raised |-> r.raised]

\* self.rate_limit_delay * 1.5, at most 60.0
BackedOff(delay) == PyMin(Rat(60, 1), Rat(delay.n * 3, delay.d * 2))

\* self.rate_limit_delay * 0.8, at least 1.0
Relaxed(delay) == PyMax(One, Rat(delay.n * 4, delay.d * 5))

IdleRest ==
    /\ config = DefaultConfig
    /\ service = "TTSService"
    /\ IdleSpeed
    /\ files = {}
    /\ audio_temp_files = <<>>
    /\ IdleMix
    /\ raised = NoException
    /\ IdleAsr
    /\ translated_segments = <<>>
    /\ tts_temp_files = <<>>
    /\ IdleClone
    /\ IdleTts
    /\ IdleBackground
    /\ IdleEnd
    /\ progress = <<>>
    /\ jobs = <<>>
    /\ file_owner = <<>>

InitTranslate ==
    /\ IdleRest
    /\ IdleVoices
    /\ pc = "translate"
    /\ translation \in
          { [pc |-> "called",
             segments |-> l,
             input |-> l,
             gemini_client |-> g,
             batch_size |-> b,
             texts |-> <<>>,
             translated_texts |-> <<>>,
             next |-> 1,
             output |-> <<>>,
             path |-> "none"] :
              l \in TransSegmentLists, g \in BOOLEAN, b \in TransBatchSizes }
    /\ retry = [NewRetry(<<>>, One, <<>>) EXCEPT !.pc = "idle"]

\* translate_segments up to the first request: the empty list is returned
\* at once, the texts are taken out of the segments otherwise
BeginTranslate ==
    /\ pc = "translate"
    /\ translation.pc = "called"
    /\ LET texts == [i \in 1..Len(translation.segments) |->
                       translation.segments[i].text]
       IN  IF translation.segments = <<>>
           THEN /\ translation' = [translation EXCEPT !.pc = "returned"]
                /\ UNCHANGED retry
           ELSE IF translation.gemini_client
           THEN /\ translation' = [translation EXCEPT !.pc = "gemini",
                                                      !.texts = texts]
                /\ retry' = NewRetry(BatchAt(texts, 1,
                                       ApiBatchSize(translation.batch_size)),
                                     retry.rate_limit_delay, retry.calls)
           ELSE /\ translation' = [translation EXCEPT !.pc = "fallback",
                                                      !.texts = texts]
                /\ UNCHANGED retry
    /\ UNCHANGED <<config, service, speedVars, pc, files, audio_temp_files,
                   mixVars, raised, asrVars, translated_segments,
                   tts_temp_files, cloneVars, ttsVars, bgVars, endVars,
                   progress, jobs, file_owner, voice_map>>

\* one iteration of "for attempt in range(self.max_retries)", and what the
\* callers do when the call returns or raises
GeminiAttempt ==
    /\ pc = "translate"
    /\ translation.pc = "gemini"
    /\ retry.pc = "trying"
    /\ \/ \E lines \in SeqsUpTo(ResponseLines, Len(retry.batch) + 1) :
            LET translations ==
                    parse_gemini_response(lines, Len(retry.batch))
                done ==
                    [retry EXCEPT
                       !.pc = "returned",
                       !.outcomes = Append(@, [ok |-> TRUE,
                                               translations |-> translations,
                                               error |-> NoError]),
                       !.result = translations,
                       !.rate_limit_delay = Relaxed(@)]
                translated_texts ==
                    translation.translated_texts \o translations
                next == translation.next
                            + ApiBatchSize(translation.batch_size)
            IN  IF next <= Len(translation.texts)
                THEN /\ retry' =
                          NewRetry(BatchAt(translation.texts, next,
                                       ApiBatchSize(translation.batch_size)),
                                   done.rate_limit_delay,
                                   Append(retry.calls, CallRecord(done)))
                     /\ translation' =
                          [translation EXCEPT
                             !.translated_texts = translated_texts,
                             !.next = next]
                ELSE /\ retry' = done
                     /\ translation' =
                          [translation EXCEPT
                             !.pc = "returned",
                             !.translated_texts = translated_texts,
                             !.next = next,
                             !.output =
                                 TranslatedSegments(translation.segments,
                                                    translated_texts),
                             !.path = "primary"]
       \/ LET failed ==
                  [retry EXCEPT
                     !.outcomes = Append(@, [ok |-> FALSE,
                                             translations |-> <<>>,
                                             error |-> retry.attempt + 1])]
          IN  IF LastAttempt(retry.attempt)
              THEN /\ retry' = [failed EXCEPT !.pc = "raised",
                                              !.raised = retry.attempt + 1]
                   /\ translation' = [translation EXCEPT !.pc = "fallback"]
              ELSE /\ retry' = [failed EXCEPT
                                  !.attempt = @ + 1,
                                  !.rate_limit_delay = BackedOff(@)]
                   /\ UNCHANGED translation
    /\ UNCHANGED <<config, service, speedVars, pc, files, audio_temp_files,
                   mixVars, raised, asrVars, translated_segments,
                   tts_temp_files, cloneVars, ttsVars, bgVars, endVars,
                   progress, jobs, file_owner, voice_map>>

\* [self.fallback_translate(text, target_language) for text in texts], each
\* text translated or, when the model fails, returned as it is; then the
\* rest of translate_segments
FallbackTranslate ==
    /\ pc = "translate"
    /\ translation.pc = "fallback"
    /\ \E works \in [1..Len(translation.texts) -> BOOLEAN] :
          LET translated_texts ==
                  [i \in 1..Len(translation.texts) |->
                     IF works[i] THEN NllbText ELSE translation.texts[i]]
          IN  translation' =
                  [translation EXCEPT
                     !.pc = "returned",
                     !.translated_texts = translated_texts,
                     !.output = TranslatedSegments(translation.segments,
                                                   translated_texts),
                     !.path = "fallback"]
    /\ UNCHANGED <<config, service, speedVars, pc, files, audio_temp_files,
                   mixVars, raised, asrVars, translated_segments,
                   tts_temp_files, cloneVars, ttsVars, bgVars, endVars,
                   progress, jobs, file_owner, retry, voice_map>>

NextTranslate ==
    \/ BeginTranslate
    \/ GeminiAttempt
    \/ FallbackTranslate

SpecTranslate == InitTranslate /\ [][NextTranslate]_vars

\* C24: translate_segments returns one segment for every segment it was
\* given, in the same order, with the start_time, end_time, speaker_id and
\* confidence of that segment, whether the text came from the API, from the
\* fallback model or is the original text a failed fallback returned; the
\* segments given are not modified.
C24_TranslationKeepsShape ==
    translation.pc = "returned"
    => /\ Len(translation.output) = Len(translation.input)
       /\ translation.segments = translation.input
       /\ \A i \in 1..Len(translation.input) :
             /\ translation.output[i].start_time
                   = translation.input[i].start_time
             /\ translation.output[i].end_time
                   = translation.input[i].end_time
             /\ translation.output[i].speaker_id
                   = translation.input[i].speaker_id
             /\ translation.output[i].confidence
                   = translation.input[i].confidence
             /\ translation.output[i].text = translation.translated_texts[i]

C24_Witness ==
    /\ translation.pc = "returned"
    /\ translation.path = "fallback"
    /\ translation.gemini_client
    /\ Len(translation.output) = 2
    /\ translation.output[1].text = NllbText
    /\ translation.output[2].text = translation.input[2].text
    /\ translation.output[2].speaker_id = "speaker_1"
    /\ translation.output[1].speaker_id = NoSpeaker

\* the calls of _translate_batch_with_retry made so far, the running one last
RetryCalls ==
    IF retry.pc = "idle" THEN retry.calls
    ELSE Append(retry.calls, CallRecord(retry))

\* C30: a call of _translate_batch_with_retry makes at most max_retries
\* attempts; it returns the translations of the first attempt that succeeds
\* and attempts nothing after it; when max_retries attempts have failed it
\* raises the error of the last one and returns nothing.
C30_RetryIsBounded ==
    \A c \in 1..Len(RetryCalls) :
       LET call == RetryCalls[c]
           n == Len(call.outcomes)
       IN  /\ n <= MaxRetries
           /\ \A a \in 1..(n - 1) : ~call.outcomes[a].ok
           /\ call.pc = "trying"
                 => /\ n < MaxRetries
                    /\ \A a \in 1..n : ~call.outcomes[a].ok
           /\ call.pc = "returned"
                 => /\ n >= 1
                    /\ call.outcomes[n].ok
                    /\ call.result = call.outcomes[n].translations
                    /\ Len(call.result) = Len(call.batch)
                    /\ call.raised = NoError
           /\ call.pc = "raised"
                 => /\ n = MaxRetries
                    /\ ~call.outcomes[n].ok
                    /\ call.raised = call.outcomes[n].error
                    /\ call.result = <<>>

C30_Witness ==
    /\ Len(retry.calls) = 1
    /\ retry.calls[1].pc = "returned"
    /\ Len(retry.calls[1].outcomes) = MaxRetries
    /\ retry.pc = "raised"
    /\ retry.raised = MaxRetries
    /\ translation.pc = "fallback"

---------------------------------------------------------------------------
(* The voice mapping of one TTSService, under SpecVoices: calls of         *)
(* map_speaker_to_voice and get_available_voices in any order.             *)

\* most calls made on the service
MaxVoiceCalls == 3

VoiceLanguages == {"en", "es"}

VoiceSpeakers == {"speaker_1", "speaker_2"}

\* language not in self.voice_cache
NotCached == <<"<not cached>">>

\* speaker_id not in self.speaker_voice_mapping
NoVoice == "<no voice>"

\* _get_fallback_voices for the languages of the model
FallbackVoices(language) ==
    IF language = "en"
    THEN <<"en-US-AriaNeural", "en-US-JennyNeural", "en-US-GuyNeural">>
    ELSE <<"es-ES-ElviraNeural", "es-ES-AlvaroNeural">>

\* what edge_tts.list_voices() returns when it works: ShortName and the
\* language part of Locale
VoiceCatalogue ==
    << [ShortName |-> "en-US-AriaNeural", Locale |-> "en"],
       [ShortName |-> "es-ES-ElviraNeural", Locale |-> "es"],
       [ShortName |-> "en-GB-RyanNeural", Locale |-> "en"],
       [ShortName |-> "es-MX-DaliaNeural", Locale |-> "es"] >>

\* the ShortName of every voice of the catalogue whose locale is of the
\* language, in the order of the catalogue
RECURSIVE LanguageVoices(_, _)
LanguageVoices(voices, language) ==
    IF voices = <<>> THEN <<>>
    ELSE IF Head(voices).Locale = language
    THEN <<Head(voices).ShortName>> \o LanguageVoices(Tail(voices), language)
    ELSE LanguageVoices(Tail(voices), language)

\* get_available_voices: the cached list; else the list of the catalogue,
\* which is cached, or the fallback list when the catalogue cannot be read
get_available_voices(m, language, api_works) ==
    IF m.voice_cache[language] # NotCached
    THEN [voices |-> m.voice_cache[language], m |-> m]
    ELSE IF api_works
    THEN [voices |-> LanguageVoices(VoiceCatalogue, language),
          m |-> [m EXCEPT !.voice_cache[language] =
                             LanguageVoices(VoiceCatalogue, language)]]
    ELSE [voices |-> FallbackVoices(language), m |-> m]

\* every list get_available_voices can return for the language
AvailableVoiceLists(language) ==
    {LanguageVoices(VoiceCatalogue, language), FallbackVoices(language)}

\* map_speaker_to_voice
map_speaker_to_voice(m, speaker_id, language, api_works) ==
    IF m.speaker_voice_mapping[speaker_id] # NoVoice
    THEN [voice |-> m.speaker_voice_mapping[speaker_id], m |-> m]
    ELSE LET got == get_available_voices(m, language, api_works)
             voice_index == m.hash[speaker_id] % Len(got.voices)
             selected_voice == got.voices[voice_index + 1]
         IN  [voice |-> selected_voice,
              m |-> [got.m EXCEPT
                       !.speaker_voice_mapping[speaker_id] = selected_voice]]

InitVoices ==
    /\ IdleRest
    /\ IdleTranslation
    /\ pc = "voices"
    /\ voice_map \in
          { [speaker_voice_mapping |-> [s \in VoiceSpeakers |-> NoVoice],
             voice_cache |-> [l \in VoiceLanguages |-> NotCached],
             hash |-> h,
             calls |-> <<>>,
             n |-> 0] :
              h \in [VoiceSpeakers -> 0..2] }

MapSpeakerToVoice ==
    /\ pc = "voices"
    /\ voice_map.n < MaxVoiceCalls
    /\ \E speaker_id \in VoiceSpeakers, language \in VoiceLanguages,
          api_works \in BOOLEAN :
          LET r == map_speaker_to_voice(voice_map, speaker_id, language,
                                        api_works)
          IN  voice_map' =
                  [r.m EXCEPT !.n = @ + 1,
                              !.calls = Append(@, [speaker_id |-> speaker_id,
                                                   language |-> language,
                                                   voice |-> r.voice])]
    /\ UNCHANGED <<config, service, speedVars, pc, files, audio_temp_files,
                   mixVars, raised, asrVars, translated_segments,
                   tts_temp_files, cloneVars, ttsVars, bgVars, endVars,
                   progress, jobs, file_owner, translation, retry>>

GetAvailableVoices ==
    /\ pc = "voices"
    /\ voice_map.n < MaxVoiceCalls
    /\ \E language \in VoiceLanguages, api_works \in BOOLEAN :
          voice_map' =
              [get_available_voices(voice_map, language, api_works).m
                 EXCEPT !.n = @ + 1]
    /\ UNCHANGED <<config, service, speedVars, pc, files, audio_temp_files,
                   mixVars, raised, asrVars, translated_segments,
                   tts_temp_files, cloneVars, ttsVars, bgVars, endVars,
                   progress, jobs, file_owner, translation, retry>>

NextVoices ==
    \/ MapSpeakerToVoice
    \/ GetAvailableVoices

SpecVoices == InitVoices /\ [][NextVoices]_vars

\* C25: the voice a call of map_speaker_to_voice returns for a speaker and a
\* language is one of the voices get_available_voices can give for that
\* language, and two calls for the same speaker and language return the
\* same voice.
C25_VoiceIsOfTheLanguageAndStable ==
    \A c \in 1..Len(voice_map.calls) :
       LET call == voice_map.calls[c]
       IN  /\ \E voices \in AvailableVoiceLists(call.language) :
                 \E i \in 1..Len(voices) : voices[i] = call.voice
           /\ \A d \in 1..Len(voice_map.calls) :
                 ( /\ voice_map.calls[d].speaker_id = call.speaker_id
                   /\ voice_map.calls[d].language = call.language )
                 => voice_map.calls[d].voice = call.voice

---------------------------------------------------------------------------
(* The output of a successful job, under Spec                              *)

\* C26: when create_dubbed_video has returned, it has returned output_path;
\* the file at output_path is the dubbed video made by this job, whatever
\* the path held before, and it is the only video the job leaves: the muxed
\* file is no longer at its temporary path.
C26_SuccessLeavesDubbedVideoAtOutputPath ==
    returned # NoPath
    => /\ returned = OutputPath
       /\ OutputPath \in files
       /\ output_content[Len(output_content)] = "dubbed"
       /\ Cardinality({ k \in 1..Len(output_content) :
                          output_content[k] = "dubbed" }) = 1
       /\ final_video # OutputPath
       /\ final_video \notin files

C26_Witness ==
    /\ pc = "done"
    /\ returned = OutputPath
    /\ output_content = <<"previous", "absent", "dubbed">>

---------------------------------------------------------------------------
(* The model of the separator, under SpecBackground                        *)

\* C27: at every separation the model loaded in the separator is the model
\* asked for in that call, the default of the service when none is given,
\* and model_name names the loaded model; the two passes of the serial
\* chain run with the two configured models, in the order listed.
C27_LoadedModelIsTheRequestedOne ==
    \A k \in 1..Len(sep_model.runs) :
       /\ sep_model.runs[k].loaded = sep_model.runs[k].wanted
       /\ sep_model.runs[k].model_name = sep_model.runs[k].loaded

---------------------------------------------------------------------------
(* The slices of a combined sample, under SpecCurate                       *)

\* the durations of the first n slices, added up
RECURSIVE SliceSum(_, _)
SliceSum(slices, n) ==
    IF n = 0 THEN 0 ELSE SliceSum(slices, n - 1) + slices[n].duration

\* the speakers whose sample was put together from slices
Combining ==
    { sp \in SpeakerIds :
        /\ curation_log[sp].outcome
              \in {"combined", "RuntimeError: Failed to concatenate segments"}
        /\ curation_log[sp].slices # <<>> }

\* C28: when no segment of a speaker reaches the minimum duration, the
\* slices are taken in ascending order of start_time; a slice is no longer
\* than its segment and no longer than what is still needed; no slice is
\* taken once the accumulated duration has reached the minimum, and the
\* accumulated duration never exceeds the minimum.
C28_SlicesAscendCappedAndStopAtMinimum ==
    \A sp \in Combining :
       LET slices == curation_log[sp].slices
           sorted == SortByStart(SegmentsOf(translated_segments, sp))
           minimum == MinSampleDuration(config)
       IN  /\ \A i \in 1..Len(sorted) : SegDuration(sorted[i]) < minimum
           /\ \A j \in 1..Len(slices) :
                 /\ slices[j].pos \in 1..Len(sorted)
                 /\ slices[j].start = sorted[slices[j].pos].start_time
                 /\ slices[j].duration <= SegDuration(sorted[slices[j].pos])
                 /\ slices[j].duration <= minimum - SliceSum(slices, j - 1)
                 /\ SliceSum(slices, j - 1) < minimum
                 /\ j > 1 => /\ slices[j - 1].pos < slices[j].pos
                             /\ slices[j - 1].start <= slices[j].start
           /\ SliceSum(slices, Len(slices)) <= minimum

C28_Witness ==
    \E sp \in Combining :
       LET slices == curation_log[sp].slices
           sorted == SortByStart(SegmentsOf(translated_segments, sp))
       IN  /\ Len(slices) = 3
           /\ slices[3].duration < SegDuration(sorted[3])
           /\ SliceSum(slices, 3) = MinSampleDuration(config)
           /\ slices[1].start < slices[3].start
           /\ SegmentsOf(translated_segments, sp) # sorted

---------------------------------------------------------------------------
(* The progress reports of one job, under Spec                             *)

\* C29: every fraction reported during a run of create_dubbed_video is in
\* [0, 1] and no report has a smaller fraction than the report before it;
\* 1.0 is reported only as the last report, once the output file is in
\* place, and never on a run that fails.
C29_ProgressIsMonotoneAndCompleteOnlyOnSuccess ==
    /\ \A k \in 1..Len(progress) :
          /\ RatLeq(Rat(0, 1), progress[k].fraction)
          /\ RatLeq(progress[k].fraction, One)
          /\ k > 1 => RatLeq(progress[k - 1].fraction, progress[k].fraction)
          /\ RatEq(progress[k].fraction, One)
                => /\ k = Len(progress)
                   /\ returned = OutputPath
                   /\ OutputPath \in files
                   /\ output_content[Len(output_content)] = "dubbed"
                   /\ raised = NoException
    /\ raised # NoException
          => \A k \in 1..Len(progress) : ~RatEq(progress[k].fraction, One)

C29_Witness ==
    /\ pc = "done"
    /\ Len(progress) >= 9
    /\ RatEq(progress[Len(progress)].fraction, One)
    /\ \E k \in 1..Len(progress) :
          /\ progress[k].stage = "setup_voice_cloning"
          /\ RatEq(progress[k].fraction, Rat(3, 20))
    /\ \E k \in 1..Len(progress) :
          /\ RatLess(Rat(1, 5), progress[k].fraction)
          /\ RatLess(progress[k].fraction, Rat(3, 5))

=============================================================================
